---- MODULE Spec2Model ----
(***************************************************************************)
(* Financial-Research-Agent: the analysis pipeline (three LangGraph        *)
(* workflows threading a record through stages), the indicator engine and  *)
(* the signal generator, modelled from backend/app.                        *)
(*                                                                         *)
(* Conventions.                                                            *)
(*  - A Python dict is a record; {} is EmptyDict; d.get(k, default) is     *)
(*    Get(d, k, default).                                                  *)
(*  - An Optional value is a sequence of length at most one: None is <<>>  *)
(*    and a value v is <<v>>.                                              *)
(*  - A float is an exact rational [n, d] (d > 0, lowest terms).  A value  *)
(*    that the code rounds to k decimals is kept as the integer number of  *)
(*    10^-k units: RSI and prices in hundredths, MACD in ten-thousandths.  *)
(*    round() is round-half-even on the exact value.                       *)
(***************************************************************************)
EXTENDS Integers, Sequences, FiniteSets, TLC

VARIABLES
    req,      \* the input of the invocation (request, or a function's arguments)
    state,    \* the analysis record threaded through the stages
    pc,       \* the stage the executor runs next, "END", or "returned"
    ran,      \* the stages executed so far in this invocation, in order
    payload,  \* what the invocation returned (<<>> until it returns)
    calls,    \* number of calls made to the fetch collaborators
    http      \* status of the HTTP response (0 until the route answers)

vars == <<req, state, pc, ran, payload, calls, http>>

(***************************************************************************)
(* Bounds of the model.                                                    *)
(***************************************************************************)
MaxHist == 52        \* longest flat-then-jump price history
MaxShort == 2        \* longest free-form price history
MaxPrice == 2        \* largest close
MaxSeries == 4       \* longest free-form series given to sma and rsi
MaxValue == 3        \* largest value of such a series
MaxPeriod == 4       \* largest period given to sma and rsi
MaxResults == 3      \* most per-text results given to aggregate_sentiments
MaxGrid == 15        \* sentiments given to calculate_portfolio_risk: 0.06 * k, k <= MaxGrid

(***************************************************************************)
(* Python values.                                                          *)
(***************************************************************************)
None == <<>>
Some(v) == <<v>>
IsNone(o) == o = <<>>
EmptyDict == [k \in {} |-> 0]
Get(d, k, default) == IF k \in DOMAIN d THEN d[k] ELSE default

Abs(x) == IF x < 0 THEN -x ELSE x
Max(a, b) == IF a >= b THEN a ELSE b

RECURSIVE GCD(_, _)
GCD(a, b) == IF b = 0 THEN a ELSE GCD(b, a % b)

\* the rational n/d in lowest terms with a positive denominator
Rat(n, d) ==
    LET s == IF d < 0 THEN -1 ELSE 1
        g == GCD(Abs(n), Abs(d))
    IN  [n |-> (s * n) \div g, d |-> (s * d) \div g]
RInt(i) == [n |-> i, d |-> 1]
RAdd(a, b) == Rat(a.n * b.d + b.n * a.d, a.d * b.d)
RSub(a, b) == Rat(a.n * b.d - b.n * a.d, a.d * b.d)
RMul(a, b) == Rat(a.n * b.n, a.d * b.d)
RDiv(a, b) == Rat(a.n * b.d, a.d * b.n)
RLess(a, b) == a.n * b.d < b.n * a.d
RLeq(a, b) == a.n * b.d <= b.n * a.d
RMax(a, b) == IF RLess(a, b) THEN b ELSE a

\* round(x * scale) to the nearest integer, ties to even
Round(x, scale) ==
    LET num == x.n * scale
        q == num \div x.d
        r == num % x.d
    IN  IF 2 * r < x.d THEN q
        ELSE IF 2 * r > x.d THEN q + 1
        ELSE IF q % 2 = 0 THEN q ELSE q + 1

Last(s) == s[Len(s)]

(***************************************************************************)
(* IndicatorEngine: services/indicators.py.  Python index i is TLA+ index  *)
(* i + 1.  A history entry d is modelled by its d["Close"]: a positive     *)
(* integer close, 0 for a missing/falsy close, BadClose for a truthy value *)
(* that float() rejects.                                                   *)
(***************************************************************************)
BadClose == -1

\* mutant: the value leaving the window is never subtracted
sma_step_keeping_all(values, period, st, i) ==
    LET w1 == RAdd(st.window_sum, values[i + 1])
        o  == IF i >= period - 1 THEN Some(RDiv(w1, RInt(period))) ELSE None
    IN  [window_sum |-> w1, out |-> Append(st.out, o)]

\* one iteration of the loop of sma, for Python index i; the loop state is
\* [window_sum, out]
sma_step(values, period, st, i) ==
    LET w1 == RAdd(st.window_sum, values[i + 1])
        w2 == IF i >= period THEN RSub(w1, values[i - period + 1]) ELSE w1
        o  == IF i >= period - 1 THEN Some(RDiv(w2, RInt(period))) ELSE None
    IN  [window_sum |-> w2, out |-> Append(st.out, o)]

\* the iterations lo..hi of the loop, in order (split in halves, the first
\* half evaluated before the second starts)
RECURSIVE sma_loop(_, _, _, _, _)
sma_loop(values, period, st, lo, hi) ==
    IF lo > hi THEN st
    ELSE IF lo = hi THEN sma_step(values, period, st, lo)
    ELSE LET mid == (lo + hi) \div 2
             left == sma_loop(values, period, st, lo, mid)
         IN  IF Len(left.out) = mid + 1       \* one entry per index so far
             THEN sma_loop(values, period, left, mid + 1, hi) ELSE left

\* sma(values, period) for period >= 1 (period < 1 raises ValueError)
sma(values, period) ==
    IF Len(values) = 0 THEN <<>>
    ELSE sma_loop(values, period, [window_sum |-> RInt(0), out |-> <<>>],
                  0, Len(values) - 1).out

\* one iteration of the loop of ema; the loop state is [prev, out]
ema_step(values, k, st, i) ==
    LET v == values[i + 1]
        p == IF IsNone(st.prev) THEN v
             ELSE RAdd(RMul(RSub(v, st.prev[1]), k), st.prev[1])
    IN  [prev |-> Some(p), out |-> Append(st.out, p)]

RECURSIVE ema_loop(_, _, _, _, _)
ema_loop(values, k, st, lo, hi) ==
    IF lo > hi THEN st
    ELSE IF lo = hi THEN ema_step(values, k, st, lo)
    ELSE LET mid == (lo + hi) \div 2
             left == ema_loop(values, k, st, lo, mid)
         IN  IF Len(left.out) = mid + 1       \* one entry per index so far
             THEN ema_loop(values, k, left, mid + 1, hi) ELSE left

\* ema(values, period) for period >= 1; every index gets a value
ema(values, period) ==
    ema_loop(values, Rat(2, period + 1), [prev |-> None, out |-> <<>>],
             0, Len(values) - 1).out

gains(values) ==
    [j \in 1..Len(values) |->
        IF j = 1 THEN RInt(0) ELSE RMax(RSub(values[j], values[j - 1]), RInt(0))]
losses(values) ==
    [j \in 1..Len(values) |->
        IF j = 1 THEN RInt(0) ELSE RMax(RSub(values[j - 1], values[j]), RInt(0))]

\* sum(s[lo..hi]) (TLA+ indices)
RECURSIVE RSumRange(_, _, _)
RSumRange(s, lo, hi) ==
    IF lo > hi THEN RInt(0)
    ELSE IF lo = hi THEN s[lo]
    ELSE LET mid == (lo + hi) \div 2
         IN  RAdd(RSumRange(s, lo, mid), RSumRange(s, mid + 1, hi))

\* mutant: the warm-up is one index too long
rsi_step_late_start(g, l, period, st, i) ==
    IF i <= period THEN [st EXCEPT !.out = Append(st.out, None)]
    ELSE LET P  == RInt(period)
             ag == RDiv(RAdd(RMul(st.avg_gain, RInt(period - 1)), g[i + 1]), P)
             al == RDiv(RAdd(RMul(st.avg_loss, RInt(period - 1)), l[i + 1]), P)
             o  == IF al.n = 0 THEN RInt(100)
                   ELSE RSub(RInt(100),
                             RDiv(RInt(100), RAdd(RInt(1), RDiv(ag, al))))
         IN  [avg_gain |-> ag, avg_loss |-> al, out |-> Append(st.out, Some(o))]

\* one iteration of the second loop of rsi, for Python index i >= 1; the
\* loop state is [avg_gain, avg_loss, out]
rsi_step(g, l, period, st, i) ==
    IF i < period THEN [st EXCEPT !.out = Append(st.out, None)]
    ELSE LET P  == RInt(period)
             ag == IF i = period
                   THEN RDiv(RSumRange(g, 2, period + 1), P)
                   ELSE RDiv(RAdd(RMul(st.avg_gain, RInt(period - 1)), g[i + 1]), P)
             al == IF i = period
                   THEN RDiv(RSumRange(l, 2, period + 1), P)
                   ELSE RDiv(RAdd(RMul(st.avg_loss, RInt(period - 1)), l[i + 1]), P)
             o  == IF al.n = 0 THEN RInt(100)
                   ELSE RSub(RInt(100),
                             RDiv(RInt(100), RAdd(RInt(1), RDiv(ag, al))))
         IN  [avg_gain |-> ag, avg_loss |-> al, out |-> Append(st.out, Some(o))]

RECURSIVE rsi_loop(_, _, _, _, _, _)
rsi_loop(g, l, period, st, lo, hi) ==
    IF lo > hi THEN st
    ELSE IF lo = hi THEN rsi_step(g, l, period, st, lo)
    ELSE LET mid == (lo + hi) \div 2
             left == rsi_loop(g, l, period, st, lo, mid)
         IN  IF Len(left.out) = mid + 1       \* one entry per index so far
             THEN rsi_loop(g, l, period, left, mid + 1, hi) ELSE left

\* rsi(values, period) for period >= 1: out[0] stays None, the loop starts at 1
rsi(values, period) ==
    IF Len(values) = 0 THEN <<>>
    ELSE rsi_loop(gains(values), losses(values), period,
                  [avg_gain |-> RInt(0), avg_loss |-> RInt(0), out |-> <<None>>],
                  1, Len(values) - 1).out

\* closes = [float(d.get("Close", 0)) for d in historical_data if d.get("Close")]
closes_of(historical_data) ==
    LET kept == SelectSeq(historical_data, LAMBDA c : c # 0)
    IN  [j \in 1..Len(kept) |-> RInt(kept[j])]

\* float() raises ValueError on a truthy non-numeric close
float_raises(historical_data) ==
    \E j \in 1..Len(historical_data) : historical_data[j] = BadClose

RsiPeriod == 14
RsiNeutral == 5000     \* 50.0 in hundredths

calculate_rsi(historical_data) ==
    LET closes == closes_of(historical_data)
        rsi_values == rsi(closes, RsiPeriod)
        current_rsi == IF rsi_values # <<>> /\ ~IsNone(Last(rsi_values))
                       THEN Round(Last(rsi_values)[1], 100) ELSE RsiNeutral
    IN  IF historical_data = <<>> THEN [current |-> RsiNeutral, values |-> <<>>]
        ELSE IF Len(closes) < RsiPeriod + 1
        THEN [current |-> RsiNeutral, values |-> <<>>]
        ELSE [current |-> current_rsi,
              values |-> [j \in 1..Len(rsi_values) |->
                            IF IsNone(rsi_values[j]) THEN None
                            ELSE Some(Round(rsi_values[j][1], 100))]]

FastPeriod == 12
SlowPeriod == 26
SignalPeriod == 9
MacdZero == [macd |-> 0, signal |-> 0, histogram |-> 0]

calculate_macd(historical_data) ==
    LET closes == closes_of(historical_data)
        fast_ema == ema(closes, FastPeriod)
        slow_ema == ema(closes, SlowPeriod)
        macd_line == [j \in 1..Len(closes) |-> RSub(fast_ema[j], slow_ema[j])]
        signal_line == ema(macd_line, SignalPeriod)
        current_macd == Last(macd_line)
        current_signal == Last(signal_line)
    IN  IF historical_data = <<>> THEN MacdZero
        ELSE IF Len(closes) < SlowPeriod + SignalPeriod THEN MacdZero
        ELSE IF Len(macd_line) < SignalPeriod THEN MacdZero
        ELSE [macd |-> Round(current_macd, 10000),
              signal |-> Round(current_signal, 10000),
              histogram |-> Round(RSub(current_macd, current_signal), 10000)]

\* lower bound on x as an integer
Floor(x) == x.n \div x.d

\* t >= y where t = m + c * sqrt(v), for rationals m, c, y and v >= 0
SqrtGeq(m, c, v, y) ==
    LET gap == RSub(y, m)
        c2v == RMul(RMul(c, c), v)
    IN  IF c.n >= 0
        THEN gap.n <= 0 \/ RLeq(RMul(gap, gap), c2v)
        ELSE gap.n <= 0 /\ RLeq(c2v, RMul(gap, gap))

\* round((m + c * sqrt(v)) * scale) to the nearest integer, ties to even
RoundSqrt(m, c, v, scale) ==
    LET M  == RMul(m, RInt(scale))
        C  == RMul(c, RInt(scale))
        B  == Floor(RMul(RMax(C, RSub(RInt(0), C)), RAdd(v, RInt(1)))) + 2
        half == Rat(1, 2)
        ge(u) == SqrtGeq(M, C, v, RSub(RInt(u), half))
        u0 == CHOOSE u \in (Floor(M) - B)..(Floor(M) + B) : ge(u) /\ ~ge(u + 1)
        gap == RSub(RSub(RInt(u0), half), M)
        tie == /\ RMul(gap, gap) = RMul(RMul(C, C), v)
               /\ (gap.n = 0 \/ ((gap.n > 0) <=> (C.n > 0)))
    IN  IF tie /\ u0 % 2 # 0 THEN u0 - 1 ELSE u0

BollingerPeriod == 20
StdDev == 2

calculate_bollinger_bands(historical_data) ==
    LET closes == closes_of(historical_data)
        n == Len(closes)
        sma_values == sma(closes, BollingerPeriod)
        middle_band == IF sma_values # <<>> /\ ~IsNone(Last(sma_values))
                       THEN Last(sma_values)[1] ELSE Last(closes)
        recent_closes == SubSeq(closes, n - BollingerPeriod + 1, n)
        mean == RDiv(RSumRange(recent_closes, 1, Len(recent_closes)), RInt(Len(recent_closes)))
        variance == RDiv(RSumRange([j \in 1..Len(recent_closes) |->
                                      RMul(RSub(recent_closes[j], mean),
                                           RSub(recent_closes[j], mean))],
                                   1, Len(recent_closes)),
                         RInt(Len(recent_closes)))
        current_price == IF n > 0 THEN Round(Last(closes), 100) ELSE 0
    IN  IF historical_data = <<>>
        THEN [upper_band |-> 0, middle_band |-> 0, lower_band |-> 0, current_price |-> 0]
        ELSE IF n < BollingerPeriod
        THEN [upper_band |-> current_price, middle_band |-> current_price,
              lower_band |-> current_price, current_price |-> current_price]
        ELSE [upper_band |-> RoundSqrt(middle_band, RInt(StdDev), variance, 100),
              middle_band |-> Round(middle_band, 100),
              lower_band |-> RoundSqrt(middle_band, RInt(-StdDev), variance, 100),
              current_price |-> Round(Last(closes), 100)]

ShortWindow == 50
LongWindow == 200

\* sma(closes, w)[-1] when there is one, else the latest close, else 0
latest_sma(closes, w) ==
    LET sma_values == sma(closes, w)
    IN  IF sma_values # <<>> /\ ~IsNone(Last(sma_values)) THEN Last(sma_values)[1]
        ELSE IF closes # <<>> THEN Last(closes) ELSE RInt(0)

calculate_moving_averages(historical_data) ==
    LET closes == closes_of(historical_data)
    IN  IF historical_data = <<>> THEN [sma_50 |-> 0, sma_200 |-> 0]
        ELSE [sma_50 |-> Round(latest_sma(closes, ShortWindow), 100),
              sma_200 |-> Round(latest_sma(closes, LongWindow), 100)]

(***************************************************************************)
(* SignalGenerator: agents/nodes/indicator_node.py.                        *)
(***************************************************************************)
Oversold == 3000       \* RSI 30 in hundredths
Overbought == 7000     \* RSI 70 in hundredths

\* the label and the strength delta of one indicator
rsi_signal_of(rsi_d) ==
    LET current_rsi == Get(rsi_d, "current", RsiNeutral)
    IN  IF current_rsi < Oversold THEN [label |-> "oversold_buy", delta |-> 1]
        ELSE IF current_rsi > Overbought THEN [label |-> "overbought_sell", delta |-> -1]
        ELSE [label |-> "neutral", delta |-> 0]

\* mutant: MACD weighted twice as much as the other indicators
macd_signal_weighted(macd_d) ==
    LET macd_line == Get(macd_d, "macd", 0)
        signal_line == Get(macd_d, "signal", 0)
    IN  IF macd_line > signal_line THEN [label |-> "bullish", delta |-> 2]
        ELSE IF macd_line < signal_line THEN [label |-> "bearish", delta |-> -2]
        ELSE [label |-> "neutral", delta |-> 0]

macd_signal_of(macd_d) ==
    LET macd_line == Get(macd_d, "macd", 0)
        signal_line == Get(macd_d, "signal", 0)
    IN  IF macd_line > signal_line THEN [label |-> "bullish", delta |-> 1]
        ELSE IF macd_line < signal_line THEN [label |-> "bearish", delta |-> -1]
        ELSE [label |-> "neutral", delta |-> 0]

bollinger_signal_of(bollinger) ==
    LET current_price == Get(bollinger, "current_price", 0)
        lower_band == Get(bollinger, "lower_band", 0)
        upper_band == Get(bollinger, "upper_band", 0)
    IN  IF current_price < lower_band THEN [label |-> "oversold_buy", delta |-> 1]
        ELSE IF current_price > upper_band THEN [label |-> "overbought_sell", delta |-> -1]
        ELSE [label |-> "neutral", delta |-> 0]

ma_signal_of(moving_avgs) ==
    LET sma_50 == Get(moving_avgs, "sma_50", 0)
        sma_200 == Get(moving_avgs, "sma_200", 0)
    IN  IF sma_50 > sma_200 THEN [label |-> "golden_cross_buy", delta |-> 1]
        ELSE IF sma_50 < sma_200 THEN [label |-> "death_cross_sell", delta |-> -1]
        ELSE [label |-> "neutral", delta |-> 0]

\* mutant: the buy and sell rows of the table are lost
overall_of_two_levels(strength) ==
    IF strength >= 1 THEN "strong_buy"
    ELSE IF strength <= -1 THEN "strong_sell"
    ELSE "hold"

overall_of(strength) ==
    IF strength >= 2 THEN "strong_buy"
    ELSE IF strength = 1 THEN "buy"
    ELSE IF strength = -1 THEN "sell"
    ELSE IF strength <= -2 THEN "strong_sell"
    ELSE "hold"

generate_trading_signals(rsi_d, macd_d, bollinger, moving_avgs) ==
    LET s0 == 0
        s1 == s0 + rsi_signal_of(rsi_d).delta
        s2 == s1 + macd_signal_of(macd_d).delta
        s3 == s2 + bollinger_signal_of(bollinger).delta
        s4 == s3 + ma_signal_of(moving_avgs).delta
    IN  [rsi_signal |-> rsi_signal_of(rsi_d).label,
         macd_signal |-> macd_signal_of(macd_d).label,
         bollinger_signal |-> bollinger_signal_of(bollinger).label,
         ma_signal |-> ma_signal_of(moving_avgs).label,
         overall_signal |-> overall_of(s4),
         strength |-> s4]

summarize_indicators(signals) ==
    [overall |-> signals.overall_signal, strength |-> Abs(signals.strength)]

(***************************************************************************)
(* SentimentScorer: services/sentiment.py.  The classifier is a black box  *)
(* text -> compound; a text is represented downstream by the compound the  *)
(* classifier gives it, in ten-thousandths (VADER rounds to 4 decimals).   *)
(* Scores and confidences are kept in thousandths (round(x, 3)).           *)
(***************************************************************************)
PositiveCut == 500      \* compound  0.05 in ten-thousandths
NegativeCut == -500     \* compound -0.05 in ten-thousandths
NeutralScore == 500     \* score 0.5 in thousandths

\* mutant: the label cuts are strict
analyze_sentiment_strict_cuts(compound_score) ==
    LET normalized_score == Rat(compound_score + 10000, 20000)
        label == IF compound_score > PositiveCut THEN "positive"
                 ELSE IF compound_score < NegativeCut THEN "negative"
                 ELSE "neutral"
        confidence == Rat(Abs(compound_score), 10000)
    IN  [score |-> Round(normalized_score, 1000),
         compound |-> Round(Rat(compound_score, 10000), 1000),
         label |-> label,
         confidence |-> Round(confidence, 1000)]

analyze_sentiment(compound_score) ==
    LET normalized_score == Rat(compound_score + 10000, 20000)
        label == IF compound_score >= PositiveCut THEN "positive"
                 ELSE IF compound_score <= NegativeCut THEN "negative"
                 ELSE "neutral"
        confidence == Rat(Abs(compound_score), 10000)
    IN  [score |-> Round(normalized_score, 1000),
         compound |-> Round(Rat(compound_score, 10000), 1000),
         label |-> label,
         confidence |-> Round(confidence, 1000)]

RECURSIVE SumInts(_)
SumInts(s) == IF s = <<>> THEN 0 ELSE s[1] + SumInts(Tail(s))

CountLabel(results, l) == Cardinality({j \in 1..Len(results) : results[j].label = l})

AggPositive == 600      \* mean score 0.6 in thousandths
AggNegative == 400      \* mean score 0.4 in thousandths

\* mutant: the overall label uses the per-text cuts, (1 +/- 0.05) / 2
aggregate_sentiments_text_cuts(sentiment_results) ==
    LET n == Len(sentiment_results)
        avg_score == Rat(SumInts([j \in 1..n |-> sentiment_results[j].score]), n)
        avg_confidence == Rat(SumInts([j \in 1..n |-> sentiment_results[j].confidence]), n)
        overall_label == IF RLeq(RInt(525), avg_score) THEN "positive"
                         ELSE IF RLeq(avg_score, RInt(475)) THEN "negative"
                         ELSE "neutral"
    IN  IF n = 0
        THEN [score |-> NeutralScore, label |-> "neutral", confidence |-> 0, count |-> 0]
        ELSE [score |-> Round(avg_score, 1),
              label |-> overall_label,
              confidence |-> Round(avg_confidence, 1),
              count |-> n,
              positive_count |-> CountLabel(sentiment_results, "positive"),
              negative_count |-> CountLabel(sentiment_results, "negative"),
              neutral_count |-> CountLabel(sentiment_results, "neutral")]

\* every result is a dict with a score, so the compound fallback of lines
\* 82-97 is never taken
aggregate_sentiments(sentiment_results) ==
    LET n == Len(sentiment_results)
        avg_score == Rat(SumInts([j \in 1..n |-> sentiment_results[j].score]), n)
        avg_confidence == Rat(SumInts([j \in 1..n |-> sentiment_results[j].confidence]), n)
        overall_label == IF RLeq(RInt(AggPositive), avg_score) THEN "positive"
                         ELSE IF RLeq(avg_score, RInt(AggNegative)) THEN "negative"
                         ELSE "neutral"
    IN  IF n = 0
        THEN [score |-> NeutralScore, label |-> "neutral", confidence |-> 0, count |-> 0]
        ELSE [score |-> Round(avg_score, 1),
              label |-> overall_label,
              confidence |-> Round(avg_confidence, 1),
              count |-> n,
              positive_count |-> CountLabel(sentiment_results, "positive"),
              negative_count |-> CountLabel(sentiment_results, "negative"),
              neutral_count |-> CountLabel(sentiment_results, "neutral")]

(***************************************************************************)
(* Python truthiness of an Optional string / Optional list or dict.        *)
(***************************************************************************)
TruthyStr(o) == ~IsNone(o) /\ o[1] # ""
TruthyColl(o) == ~IsNone(o) /\ DOMAIN o[1] # {}

(***************************************************************************)
(* SpecSignals: generate_trading_signals applied to every indicator set    *)
(* of a bounded family (values around each threshold, and dicts that lack  *)
(* their keys so that the .get defaults are used).                         *)
(***************************************************************************)
RsiLevels == {0, Oversold - 1, Oversold, RsiNeutral, Overbought, Overbought + 1, 10000}
RsiDicts == {EmptyDict} \cup {[current |-> c, values |-> <<>>] : c \in RsiLevels}
MacdLevels == {-1, 0, 1}
MacdDicts == {EmptyDict} \cup
    {[macd |-> m, signal |-> g, histogram |-> m - g] : m \in MacdLevels, g \in MacdLevels}
BandLevels == {9900, 10000, 10100}
\* the bands are middle -/+ 2 std, so lower_band <= middle_band <= upper_band
BollingerDicts == {EmptyDict} \cup
    {b \in [upper_band : BandLevels, middle_band : BandLevels,
            lower_band : BandLevels, current_price : BandLevels] :
        b.lower_band <= b.middle_band /\ b.middle_band <= b.upper_band}
MaDicts == {EmptyDict} \cup
    {[sma_50 |-> a, sma_200 |-> b] : a \in BandLevels, b \in BandLevels}

InitSignals ==
    /\ req \in [rsi : RsiDicts, macd : MacdDicts,
                bollinger : BollingerDicts, moving_averages : MaDicts]
    /\ state = EmptyDict
    /\ pc = "call"
    /\ ran = <<>>
    /\ payload = None
    /\ calls = 0
    /\ http = 0

GenerateSignals ==
    /\ pc = "call"
    /\ payload' = Some(generate_trading_signals(req.rsi, req.macd,
                                                req.bollinger, req.moving_averages))
    /\ pc' = "returned"
    /\ UNCHANGED <<req, state, ran, calls, http>>

NextSignals == GenerateSignals
SpecSignals == InitSignals /\ [][NextSignals]_vars

(***************************************************************************)
(* SpecIndicators: the four calculate_* functions and the signal generator *)
(* applied to every price history of a bounded family: every history of at *)
(* most MaxShort closes (0 = missing close), and every history of up to    *)
(* MaxHist closes, or of about LongWindow closes, that is flat and then    *)
(* moves on its last close.                                                *)
(***************************************************************************)
FlatJump(n, a, b) == [j \in 1..n |-> IF j < n THEN a ELSE b]
ShortHistories == UNION {[1..n -> 0..MaxPrice] : n \in 0..MaxShort}
FlatJumpHistories == {FlatJump(n, a, b) : n \in 1..MaxHist, a \in 1..MaxPrice, b \in 1..MaxPrice}
LongHistories ==
    {FlatJump(n, a, b) : n \in (LongWindow - 1)..(LongWindow + 1),
                         a \in 1..MaxPrice, b \in 1..MaxPrice}
PriceHistories == ShortHistories \cup FlatJumpHistories \cup LongHistories

\* the summary block appended to the computed indicators
with_summary(indicators) ==
    indicators @@ [summary |-> summarize_indicators(indicators.signals)]

\* the signals generated from the four indicator dictionaries
with_signals(rsi_d, macd_d, bollinger, moving_avgs) ==
    with_summary([rsi |-> rsi_d, macd |-> macd_d, bollinger_bands |-> bollinger,
                  moving_averages |-> moving_avgs,
                  signals |-> generate_trading_signals(rsi_d, macd_d, bollinger,
                                                       moving_avgs)])

\* what calculate_*_indicators computes from one history
indicators_of(historical_data) ==
    with_signals(calculate_rsi(historical_data), calculate_macd(historical_data),
                 calculate_bollinger_bands(historical_data),
                 calculate_moving_averages(historical_data))

InitIndicators ==
    /\ req \in [historical_data : PriceHistories]
    /\ state = EmptyDict
    /\ pc = "call"
    /\ ran = <<>>
    /\ payload = None
    /\ calls = 0
    /\ http = 0

CalculateIndicators ==
    /\ pc = "call"
    /\ payload' = IF float_raises(req.historical_data)
                  THEN Some([raised |-> TRUE])
                  ELSE Some([raised |-> FALSE] @@ indicators_of(req.historical_data))
    /\ pc' = "returned"
    /\ UNCHANGED <<req, state, ran, calls, http>>

NextIndicators == CalculateIndicators
SpecIndicators == InitIndicators /\ [][NextIndicators]_vars

(***************************************************************************)
(* Collaborators of the workflows.  The news provider, the quote and      *)
(* history providers and the classifier are outside the program: what they *)
(* return, and whether they raise, is chosen by the environment.  An       *)
(* article is represented by the compound the classifier gives its text;   *)
(* scorable = FALSE is an article whose scoring raises (the item is not a  *)
(* mapping, or the classifier fails on it).                                *)
(***************************************************************************)
MaxNews == 2         \* most articles the news provider returns
MaxTickers == 2      \* longest free-form ticker list

SeqsUpTo(S, n) == UNION {[1..k -> S] : k \in 0..n}

Tickers == {"A", "B"}
Compounds == {-8000, 0, 8000}
Articles ==
    {[scorable |-> TRUE, compound |-> c] : c \in Compounds}
        \cup {[scorable |-> FALSE, compound |-> 0]}
NewsLists == SeqsUpTo(Articles, MaxNews)

\* get_stock_data: a quote, or {"error": ...} when the lookup failed
Quotes(ticker) ==
    {[error |-> "No data returned"]}
        \cup {[price |-> 100 * p, symbol |-> ticker] : p \in 1..MaxPrice}

\* get_historical_data: [] on failure, else the data points
WorkflowHistories ==
    {<<>>, <<0>>, <<BadClose>>,
     FlatJump(ShortWindow, 1, MaxPrice), FlatJump(ShortWindow, MaxPrice, 1)}

\* one round of the three fetch calls for a ticker: raise_at names the call
\* that raised ("none" when all three returned)
FetchResponses(ticker) ==
    {[raise_at |-> r, news |-> <<>>, quote |-> [error |-> "No data returned"],
      historical |-> <<>>] : r \in {"news", "quote", "historical"}}
        \cup [raise_at : {"none"}, news : NewsLists, quote : Quotes(ticker),
              historical : WorkflowHistories]

calls_made(resp) ==
    IF resp.raise_at = "news" THEN 1 ELSE IF resp.raise_at = "quote" THEN 2 ELSE 3

\* str(e) of the exceptions Python raises on a null field
NoneTypeGet == "'NoneType' object has no attribute 'get'"
NoneTypeFormat == "unsupported format string passed to NoneType.__format__"
NoneTypeLen == "object of type 'NoneType' has no len()"
NoneTypeIter == "'NoneType' object is not iterable"

(***************************************************************************)
(* Research workflow: agents/graphs/research_graph.py and the research     *)
(* stages of agents/nodes.  The record has every key from the start        *)
(* (run_research_analysis initialises them to None); query and timestamp   *)
(* take no part in any decision and are left out.                          *)
(***************************************************************************)
research_initial_state(ticker) ==
    [ticker |-> ticker, news_data |-> None, stock_data |-> None,
     sentiment_score |-> None, sentiment_analysis |-> None, indicators |-> None,
     research_summary |-> None, recommendations |-> None, error |-> None]

fetch_research_data(st, resp) ==
    IF resp.raise_at # "none"
    THEN [st EXCEPT !.error = Some("Data fetch error")]
    ELSE [st EXCEPT !.news_data = Some(resp.news),
                    !.stock_data = Some([current |-> resp.quote,
                                         historical |-> resp.historical])]

research_after_fetch_ignoring_error(st) ==
    IF ~TruthyColl(st.news_data) /\ ~TruthyColl(st.stock_data) /\ ~TruthyStr(st.error)
    THEN "END"
    ELSE "sentiment"

research_after_fetch(st) ==
    IF TruthyStr(st.error) THEN "synthesis"
    ELSE IF ~TruthyColl(st.news_data) /\ ~TruthyColl(st.stock_data) THEN "END"
    ELSE "sentiment"

analyze_research_sentiment(st) ==
    LET news_data == st.news_data[1]
        individual_sentiments ==
            [j \in 1..Len(news_data) |->
                [sentiment |-> analyze_sentiment(news_data[j].compound)]]
        results == [j \in 1..Len(news_data) |-> individual_sentiments[j].sentiment]
        aggregated == aggregate_sentiments(results)
    IN  IF ~TruthyColl(st.news_data)
        THEN [st EXCEPT !.sentiment_score = Some(NeutralScore),
                        !.sentiment_analysis = Some([error |-> "No news data"])]
        ELSE IF \E j \in 1..Len(news_data) : ~news_data[j].scorable
        THEN [st EXCEPT !.error = Some("Sentiment analysis error"),
                        !.sentiment_score = Some(NeutralScore)]
        ELSE [st EXCEPT
                !.sentiment_score = Some(aggregated.score),
                !.sentiment_analysis = Some(
                    [overall |-> aggregated,
                     individual |-> individual_sentiments,
                     article_count |-> Len(news_data),
                     positive_count |-> CountLabel(results, "positive"),
                     negative_count |-> CountLabel(results, "negative"),
                     neutral_count |-> CountLabel(results, "neutral")])]

\* mutant: the edge after sentiment retries the stage while an error is set
research_after_sentiment_retrying(st) ==
    IF TruthyStr(st.error) THEN "sentiment" ELSE "indicators"
research_after_sentiment(st) == "indicators"

\* stock_data.get(...) sits before the try: a null stock_data escapes the stage
research_indicators_escapes(st) == IsNone(st.stock_data)

\* mutant: a successful indicators stage clears the error an earlier stage left
calculate_research_indicators_clearing_error(st) ==
    LET historical_data == st.stock_data[1].historical
    IN  IF historical_data = <<>>
        THEN [st EXCEPT !.indicators = Some([error |-> "No historical data"])]
        ELSE IF float_raises(historical_data)
        THEN [st EXCEPT !.error = Some("Indicator calculation error")]
        ELSE [st EXCEPT !.indicators = Some(indicators_of(historical_data)),
                        !.error = None]
calculate_research_indicators(st) ==
    LET historical_data == st.stock_data[1].historical
    IN  IF historical_data = <<>>
        THEN [st EXCEPT !.indicators = Some([error |-> "No historical data"])]
        ELSE IF float_raises(historical_data)
        THEN [st EXCEPT !.error = Some("Indicator calculation error")]
        ELSE [st EXCEPT !.indicators = Some(indicators_of(historical_data))]

research_after_indicators(st) == "synthesis"

\* agents/utils/agent_utils.py.  The summary text is represented by the
\* values interpolated into it; a missing price prints as N/A (None here).
NoSummary == [overall |-> "No summary available", strength |-> 0]

\* the first exception create_research_summary raises, if any
create_research_summary_exception(st) ==
    IF IsNone(st.sentiment_analysis) \/ IsNone(st.indicators) \/ IsNone(st.stock_data)
    THEN Some(NoneTypeGet)
    ELSE IF IsNone(st.sentiment_score) THEN Some(NoneTypeFormat)
    ELSE None

create_research_summary(st) ==
    LET sentiment_analysis == st.sentiment_analysis[1]
        indicators == st.indicators[1]
        stock_data == st.stock_data[1]
        signals == Get(indicators, "signals", EmptyDict)
    IN  [ticker |-> st.ticker,
         current_price |-> IF "price" \in DOMAIN stock_data.current
                           THEN Some(stock_data.current.price) ELSE None,
         sentiment_label |-> Get(Get(sentiment_analysis, "overall", EmptyDict),
                                 "label", "neutral"),
         sentiment_score |-> st.sentiment_score[1],
         technical_signal |-> Get(signals, "overall_signal", "hold"),
         article_count |-> Get(sentiment_analysis, "article_count", 0),
         positive_count |-> Get(sentiment_analysis, "positive_count", 0),
         negative_count |-> Get(sentiment_analysis, "negative_count", 0),
         technical |-> Get(indicators, "summary", NoSummary)]

HighSentiment == 700    \* 0.7 in thousandths
LowSentiment == 300     \* 0.3 in thousandths
BuySide == {"buy", "strong_buy"}
SellSide == {"sell", "strong_sell"}

\* mutant: the default is appended whether or not a rule fired
generate_recommendations_with_default(st) ==
    LET sentiment_score == st.sentiment_score[1]
        signals == Get(st.indicators[1], "signals", EmptyDict)
        overall_signal == Get(signals, "overall_signal", "hold")
        by_sentiment ==
            IF sentiment_score >= HighSentiment
            THEN <<"Positive market sentiment detected - consider increasing position">>
            ELSE IF sentiment_score <= LowSentiment
            THEN <<"Negative market sentiment detected - exercise caution">>
            ELSE <<>>
        by_signal ==
            IF overall_signal = "strong_buy"
            THEN <<"Strong technical buy signal - potential entry point">>
            ELSE IF overall_signal = "buy"
            THEN <<"Moderate buy signal - consider scaling in">>
            ELSE IF overall_signal = "strong_sell"
            THEN <<"Strong sell signal - consider reducing exposure">>
            ELSE IF overall_signal = "sell"
            THEN <<"Moderate sell signal - monitor closely">>
            ELSE <<>>
        combined ==
            IF sentiment_score >= AggPositive /\ overall_signal \in BuySide
            THEN <<"Both sentiment and technicals align positively - high confidence opportunity">>
            ELSE IF sentiment_score <= AggNegative /\ overall_signal \in SellSide
            THEN <<"Both sentiment and technicals align negatively - consider risk management">>
            ELSE IF \/ sentiment_score >= AggPositive /\ overall_signal \in SellSide
                    \/ sentiment_score <= AggNegative /\ overall_signal \in BuySide
            THEN <<"Mixed signals - proceed with caution and do additional research">>
            ELSE <<>>
        recommendations == by_sentiment \o by_signal \o combined
    IN  recommendations \o <<"Hold current position and monitor for changes">>

generate_recommendations(st) ==
    LET sentiment_score == st.sentiment_score[1]
        signals == Get(st.indicators[1], "signals", EmptyDict)
        overall_signal == Get(signals, "overall_signal", "hold")
        by_sentiment ==
            IF sentiment_score >= HighSentiment
            THEN <<"Positive market sentiment detected - consider increasing position">>
            ELSE IF sentiment_score <= LowSentiment
            THEN <<"Negative market sentiment detected - exercise caution">>
            ELSE <<>>
        by_signal ==
            IF overall_signal = "strong_buy"
            THEN <<"Strong technical buy signal - potential entry point">>
            ELSE IF overall_signal = "buy"
            THEN <<"Moderate buy signal - consider scaling in">>
            ELSE IF overall_signal = "strong_sell"
            THEN <<"Strong sell signal - consider reducing exposure">>
            ELSE IF overall_signal = "sell"
            THEN <<"Moderate sell signal - monitor closely">>
            ELSE <<>>
        combined ==
            IF sentiment_score >= AggPositive /\ overall_signal \in BuySide
            THEN <<"Both sentiment and technicals align positively - high confidence opportunity">>
            ELSE IF sentiment_score <= AggNegative /\ overall_signal \in SellSide
            THEN <<"Both sentiment and technicals align negatively - consider risk management">>
            ELSE IF \/ sentiment_score >= AggPositive /\ overall_signal \in SellSide
                    \/ sentiment_score <= AggNegative /\ overall_signal \in BuySide
            THEN <<"Mixed signals - proceed with caution and do additional research">>
            ELSE <<>>
        recommendations == by_sentiment \o by_signal \o combined
    IN  IF recommendations = <<>>
        THEN <<"Hold current position and monitor for changes">>
        ELSE recommendations

\* the risk score as an exact rational
calculate_risk_score(st) ==
    LET sentiment_analysis == st.sentiment_analysis[1]
        positive == Get(sentiment_analysis, "positive_count", 0)
        negative == Get(sentiment_analysis, "negative_count", 0)
        total == Get(sentiment_analysis, "article_count", 1)
        from_sentiment ==
            IF DOMAIN sentiment_analysis # {} /\ total > 0
            THEN <<RSub(RInt(1), Rat(Abs(positive - negative), total))>>
            ELSE <<>>
        signals == Get(st.indicators[1], "signals", EmptyDict)
        strength == Abs(Get(signals, "strength", 0))
        from_signals ==
            IF strength >= 3 THEN Rat(2, 10)
            ELSE IF strength >= 2 THEN Rat(4, 10)
            ELSE IF strength = 1 THEN Rat(6, 10)
            ELSE Rat(8, 10)
        risk_factors == from_sentiment \o <<from_signals>>
    IN  RDiv(RSumRange(risk_factors, 1, Len(risk_factors)), RInt(Len(risk_factors)))

\* generate_recommendations and calculate_risk_score dereference the fields
\* create_research_summary has already dereferenced, so once the summary is
\* built neither raises; the key "indicators" is always in the record
synthesis_node(st) ==
    IF create_research_summary_exception(st) # None
    THEN [st EXCEPT !.error = Some("Synthesis error")]
    ELSE [st EXCEPT
            !.research_summary = Some(create_research_summary(st)),
            !.recommendations = Some(generate_recommendations(st)),
            !.indicators = Some([risk_score |-> calculate_risk_score(st)]
                                    @@ st.indicators[1])]

\* lines 178-198 of run_research_analysis: the formatter, and the handler of
\* an exception raised by the graph or by the formatter
format_research_output(final_state) ==
    IF IsNone(final_state.indicators)
    THEN [ticker |-> final_state.ticker, error |-> Some(NoneTypeGet)]
    ELSE [ticker |-> final_state.ticker,
          sentiment |-> [score |-> final_state.sentiment_score,
                         analysis |-> final_state.sentiment_analysis],
          technical |-> final_state.indicators,
          summary |-> final_state.research_summary,
          recommendations |-> final_state.recommendations,
          risk_score |-> IF "risk_score" \in DOMAIN final_state.indicators[1]
                         THEN Some(final_state.indicators[1].risk_score) ELSE None,
          error |-> final_state.error]

\* the route's answer to a payload: 500 when its error is truthy
route_status(result) == IF TruthyStr(result.error) THEN 500 ELSE 200

(***************************************************************************)
(* Actions of the Research workflow.  An invocation enters through         *)
(* run_research_analysis, called directly or by the route research_agent   *)
(* (get_research is the same code); each stage action runs the stage and    *)
(* the conditional edge that follows it.                                   *)
(***************************************************************************)
ResearchRequests == [kind : {"research"}, via : {"direct", "post"}, ticker : Tickers]

RunResearch ==
    /\ pc = "call"
    /\ req.kind = "research"
    /\ state' = research_initial_state(req.ticker)
    /\ pc' = "fetch"
    /\ UNCHANGED <<req, ran, payload, calls, http>>

ResearchFetch ==
    /\ pc = "fetch"
    /\ req.kind = "research"
    /\ \E resp \in FetchResponses(state.ticker) :
        /\ state' = fetch_research_data(state, resp)
        /\ calls' = calls + calls_made(resp)
    /\ ran' = Append(ran, "fetch")
    /\ pc' = research_after_fetch(state')
    /\ UNCHANGED <<req, payload, http>>

ResearchSentiment ==
    /\ pc = "sentiment"
    /\ req.kind = "research"
    /\ state' = analyze_research_sentiment(state)
    /\ ran' = Append(ran, "sentiment")
    /\ pc' = research_after_sentiment(state')
    /\ UNCHANGED <<req, payload, calls, http>>

ResearchIndicators ==
    /\ pc = "indicators"
    /\ req.kind = "research"
    /\ ran' = Append(ran, "indicators")
    /\ IF research_indicators_escapes(state)
       THEN state' = state /\ pc' = "raised"
       ELSE /\ state' = calculate_research_indicators(state)
            /\ pc' = research_after_indicators(state')
    /\ UNCHANGED <<req, payload, calls, http>>

ResearchSynthesis ==
    /\ pc = "synthesis"
    /\ req.kind = "research"
    /\ state' = synthesis_node(state)
    /\ ran' = Append(ran, "synthesis")
    /\ pc' = "END"
    /\ UNCHANGED <<req, payload, calls, http>>

\* run_research_analysis returns; the route, when there is one, answers
ResearchReturn ==
    /\ pc \in {"END", "raised"}
    /\ req.kind = "research"
    /\ LET result == IF pc = "raised"
                     THEN [ticker |-> req.ticker, error |-> Some(NoneTypeGet)]
                     ELSE format_research_output(state)
       IN  /\ payload' = Some(result)
           /\ http' = IF req.via = "direct" THEN http ELSE route_status(result)
    /\ pc' = "returned"
    /\ UNCHANGED <<req, state, ran, calls>>

(***************************************************************************)
(* Sentiment-only workflow: agents/graphs/sentiment_graph.py and           *)
(* analyze_pure_sentiment.  A text is a sequence of characters.            *)
(***************************************************************************)
MaxTexts == 2        \* longest list of texts
MaxTextLen == 2      \* longest text

Chars == {" ", "a"}
Texts == SeqsUpTo(Chars, MaxTextLen)
\* the j-th source of a request is named by j letters
Repeated(t, n) == [j \in 1..n |-> t]
SourceLists == {[j \in 1..k |-> Repeated("s", j)] : k \in 0..MaxTexts}

RECURSIVE SortedSeq(_)
SortedSeq(S) ==
    IF S = {} THEN <<>>
    ELSE LET m == CHOOSE x \in S : \A y \in S : x <= y
         IN  <<m>> \o SortedSeq(S \ {m})

\* str.split(): the maximal runs of non-blank characters, in order
word_starts(text) ==
    {i \in 1..Len(text) : text[i] # " " /\ (i = 1 \/ text[i - 1] = " ")}
word_end(text, i) ==
    CHOOSE j \in i..Len(text) :
        /\ \A k \in i..j : text[k] # " "
        /\ j = Len(text) \/ text[j + 1] = " "
split(text) ==
    LET starts == SortedSeq(word_starts(text))
    IN  [k \in 1..Len(starts) |-> SubSeq(text, starts[k], word_end(text, starts[k]))]

\* " ".join(words)
RECURSIVE join(_)
join(words) ==
    IF words = <<>> THEN <<>>
    ELSE IF Len(words) = 1 THEN words[1]
    ELSE words[1] \o <<" ">> \o join(Tail(words))

Prefix(s, n) == SubSeq(s, 1, IF Len(s) < n THEN Len(s) ELSE n)

sentiment_initial_state(texts, sources) ==
    [texts |-> texts, sources |-> sources, individual_sentiments |-> None,
     aggregated_sentiment |-> None, confidence_score |-> None,
     key_topics |-> None, error |-> None]

preprocess_node_keeping_blanks(st) ==
    IF st.texts = <<>>
    THEN [st EXCEPT !.error = Some("No texts provided for analysis")]
    ELSE [st EXCEPT !.texts = [j \in 1..Len(st.texts) |-> join(split(st.texts[j]))]]

preprocess_node(st) ==
    LET cleaned == [j \in 1..Len(st.texts) |-> join(split(st.texts[j]))]
        cleaned_texts == SelectSeq(cleaned, LAMBDA c : c # <<>>)
    IN  IF st.texts = <<>>
        THEN [st EXCEPT !.error = Some("No texts provided for analysis")]
        ELSE [st EXCEPT !.texts = cleaned_texts]

sentiment_after_preprocess(st) ==
    IF TruthyStr(st.error) THEN "END"
    ELSE IF st.texts = <<>> THEN "END"
    ELSE "analyze"

\* the words of at least TopicMinLen letters of all the texts, most frequent
\* first, ties in order of first occurrence, at most TopN of them (the stop
\* words cannot be spelled with Chars)
TopicMinLen == 4
TopN == 5
occurrences(words, w) == Cardinality({j \in 1..Len(words) : words[j] = w})
RECURSIVE most_common(_, _, _)
most_common(words, candidates, n) ==
    IF n = 0 \/ candidates = <<>> THEN <<>>
    ELSE LET best == CHOOSE j \in 1..Len(candidates) :
                         /\ \A k \in 1..Len(candidates) :
                                occurrences(words, candidates[k])
                                    <= occurrences(words, candidates[j])
                         /\ \A k \in 1..(j - 1) :
                                occurrences(words, candidates[k])
                                    < occurrences(words, candidates[j])
         IN  <<candidates[best]>>
                 \o most_common(words,
                                SelectSeq(candidates, LAMBDA c : c # candidates[best]),
                                n - 1)
RECURSIVE first_occurrences(_)
first_occurrences(words) ==
    IF words = <<>> THEN <<>>
    ELSE LET init == first_occurrences(SubSeq(words, 1, Len(words) - 1))
             w == words[Len(words)]
         IN  IF \E j \in 1..Len(init) : init[j] = w THEN init ELSE Append(init, w)
extract_key_topics(texts) ==
    LET words == SelectSeq(split(join(texts)), LAMBDA w : Len(w) >= TopicMinLen)
    IN  most_common(words, first_occurrences(words), TopN)

\* classify gives the compound of each text; zip stops at the shorter list,
\* and raises when sources is None
analyze_pure_sentiment(st, classify) ==
    LET texts == st.texts
        sources == st.sources[1]
        n == IF Len(texts) < Len(sources) THEN Len(texts) ELSE Len(sources)
        individual_sentiments ==
            [j \in 1..n |-> [source |-> sources[j],
                             sentiment |-> analyze_sentiment(classify[texts[j]]),
                             text |-> Prefix(texts[j], 200)]]
        aggregated == aggregate_sentiments(
                          [j \in 1..n |-> individual_sentiments[j].sentiment])
    IN  IF IsNone(st.sources)
        THEN [st EXCEPT !.error = Some(NoneTypeIter)]
        ELSE [st EXCEPT !.individual_sentiments = Some(individual_sentiments),
                        !.aggregated_sentiment = Some(aggregated),
                        !.confidence_score = Some(aggregated.confidence),
                        !.key_topics = Some(extract_key_topics(texts))]

sentiment_after_analyze(st) == "postprocess"

ModeratelyPositive == 550
NeutralFloor == 450
HighConfidence == 800
ModerateConfidence == 600

postprocess_node(st) ==
    LET aggregated == st.aggregated_sentiment[1]
        score == Get(aggregated, "score", NeutralScore)
        confidence == Get(aggregated, "confidence", 0)
        interpretation ==
            IF score >= HighSentiment THEN "Strongly positive sentiment"
            ELSE IF score >= ModeratelyPositive THEN "Moderately positive sentiment"
            ELSE IF score >= NeutralFloor THEN "Neutral sentiment"
            ELSE IF score >= LowSentiment THEN "Moderately negative sentiment"
            ELSE "Strongly negative sentiment"
        confidence_level ==
            IF confidence >= HighConfidence THEN "High confidence"
            ELSE IF confidence >= ModerateConfidence THEN "Moderate confidence"
            ELSE "Low confidence"
    IN  IF ~TruthyColl(st.aggregated_sentiment) THEN st
        ELSE [st EXCEPT !.aggregated_sentiment =
                  Some([interpretation |-> interpretation,
                        confidence_level |-> confidence_level] @@ aggregated)]

format_sentiment_output(final_state) ==
    [aggregated |-> final_state.aggregated_sentiment,
     individual |-> final_state.individual_sentiments,
     key_topics |-> final_state.key_topics,
     confidence |-> final_state.confidence_score,
     text_count |-> Len(final_state.texts),
     error |-> final_state.error]

\* the route sentiment_agent raises HTTPException(400) for an empty list,
\* inside the try whose handler turns every exception into a 500
sentiment_agent_rejects(request) == request.texts = <<>>

SentimentRequests ==
    [kind : {"sentiment"}, via : {"direct", "post"},
     texts : SeqsUpTo(Texts, MaxTexts),
     sources : {None} \cup {Some(s) : s \in SourceLists}]

RunSentiment ==
    /\ pc = "call"
    /\ req.kind = "sentiment"
    /\ IF req.via = "post" /\ sentiment_agent_rejects(req)
       THEN /\ http' = 500
            /\ pc' = "rejected"
            /\ state' = state
       ELSE /\ state' = sentiment_initial_state(req.texts, req.sources)
            /\ pc' = "preprocess"
            /\ http' = http
    /\ UNCHANGED <<req, ran, payload, calls>>

SentimentPreprocess ==
    /\ pc = "preprocess"
    /\ req.kind = "sentiment"
    /\ state' = preprocess_node(state)
    /\ ran' = Append(ran, "preprocess")
    /\ pc' = sentiment_after_preprocess(state')
    /\ UNCHANGED <<req, payload, calls, http>>

SentimentAnalyze ==
    /\ pc = "analyze"
    /\ req.kind = "sentiment"
    /\ \E classify \in [{state.texts[j] : j \in 1..Len(state.texts)} -> Compounds] :
        state' = analyze_pure_sentiment(state, classify)
    /\ ran' = Append(ran, "analyze")
    /\ pc' = sentiment_after_analyze(state')
    /\ UNCHANGED <<req, payload, calls, http>>

SentimentPostprocess ==
    /\ pc = "postprocess"
    /\ req.kind = "sentiment"
    /\ state' = postprocess_node(state)
    /\ ran' = Append(ran, "postprocess")
    /\ pc' = "END"
    /\ UNCHANGED <<req, payload, calls, http>>

SentimentReturn ==
    /\ pc = "END"
    /\ req.kind = "sentiment"
    /\ LET result == format_sentiment_output(state)
       IN  /\ payload' = Some(result)
           /\ http' = IF req.via = "direct" THEN http ELSE route_status(result)
    /\ pc' = "returned"
    /\ UNCHANGED <<req, state, ran, calls>>

(***************************************************************************)
(* Portfolio workflow: agents/graphs/portfolio_graph.py and the portfolio  *)
(* stages of agents/nodes.  A dict keyed by ticker is a function on the    *)
(* set of its keys; its insertion order is the order of first occurrence   *)
(* in tickers.  The collaborators answer the same for the same ticker      *)
(* within one invocation.  Scores are kept in hundredths (round(x, 2)).    *)
(***************************************************************************)
portfolio_initial_state(tickers) ==
    [tickers |-> tickers, stocks_data |-> None, sentiment_scores |-> None,
     technical_signals |-> None, portfolio_summary |-> None,
     recommendations |-> None, risk_metrics |-> None, error |-> None]

names_of(tickers) == {tickers[j] : j \in 1..Len(tickers)}

fetch_portfolio_data_dropping_failed(st, responses) ==
    [st EXCEPT !.stocks_data = Some(
        [t \in {u \in names_of(st.tickers) : responses[u].raise_at = "none"} |->
            [news |-> responses[t].news,
             current |-> responses[t].quote,
             historical |-> responses[t].historical]])]

\* the inner try of the loop: a raise costs the ticker its data only
fetch_portfolio_data(st, responses) ==
    [st EXCEPT !.stocks_data = Some(
        [t \in names_of(st.tickers) |->
            IF responses[t].raise_at # "none"
            THEN [error |-> "fetch failed"]
            ELSE [news |-> responses[t].news,
                  current |-> responses[t].quote,
                  historical |-> responses[t].historical]])]

portfolio_after_fetch(st) ==
    IF TruthyStr(st.error) THEN "analysis"
    ELSE IF ~TruthyColl(st.stocks_data) THEN "END"
    ELSE "sentiment"

\* scoring the news of one ticker raises
ticker_sentiment_raises(data) ==
    /\ "error" \notin DOMAIN data
    /\ \E j \in 1..Len(data.news) : ~data.news[j].scorable

ticker_sentiment(data) ==
    IF "error" \in DOMAIN data THEN NeutralScore
    ELSE IF data.news = <<>> THEN NeutralScore
    ELSE aggregate_sentiments(
             [j \in 1..Len(data.news) |-> analyze_sentiment(data.news[j].compound)]).score

\* one try around the whole loop; sentiment_scores is assigned after it
analyze_portfolio_sentiment(st) ==
    LET stocks_data == st.stocks_data[1]
    IN  IF \E t \in DOMAIN stocks_data : ticker_sentiment_raises(stocks_data[t])
        THEN [st EXCEPT !.error = Some("Portfolio sentiment error")]
        ELSE [st EXCEPT !.sentiment_scores = Some(
                  [t \in DOMAIN stocks_data |-> ticker_sentiment(stocks_data[t])])]

portfolio_after_sentiment(st) == "indicators"

ticker_indicators_raise(data) ==
    "error" \notin DOMAIN data /\ float_raises(data.historical)

ticker_indicators(data) ==
    IF "error" \in DOMAIN data THEN [error |-> data.error]
    ELSE IF data.historical = <<>> THEN [error |-> "No historical data"]
    ELSE LET all == indicators_of(data.historical)
         IN  [k \in {"rsi", "macd", "signals", "summary"} |-> all[k]]

\* one try around the whole loop; technical_signals is assigned after it
calculate_portfolio_indicators(st) ==
    LET stocks_data == st.stocks_data[1]
    IN  IF \E t \in DOMAIN stocks_data : ticker_indicators_raise(stocks_data[t])
        THEN [st EXCEPT !.error = Some("Portfolio indicators error")]
        ELSE [st EXCEPT !.technical_signals = Some(
                  [t \in DOMAIN stocks_data |-> ticker_indicators(stocks_data[t])])]

portfolio_after_indicators(st) == "analysis"

SentimentWeight == 6     \* 0.6 in tenths
TechnicalWeight == 4     \* 0.4 in tenths

\* technical score in hundredths
signal_map(overall_signal) ==
    IF overall_signal = "strong_buy" THEN 100
    ELSE IF overall_signal = "buy" THEN 75
    ELSE IF overall_signal = "hold" THEN 50
    ELSE IF overall_signal = "sell" THEN 25
    ELSE IF overall_signal = "strong_sell" THEN 0
    ELSE 50

\* mutant: the two weights are exchanged
calculate_ticker_score_swapped(sentiment, signals) ==
    LET technical_score == signal_map(Get(signals, "overall_signal", "hold"))
        total_score == RAdd(RMul(Rat(sentiment, 1000), Rat(TechnicalWeight, 10)),
                            RMul(Rat(technical_score, 100), Rat(SentimentWeight, 10)))
    IN  Round(total_score, 100)

calculate_ticker_score(sentiment, signals) ==
    LET technical_score == signal_map(Get(signals, "overall_signal", "hold"))
        total_score == RAdd(RMul(Rat(sentiment, 1000), Rat(SentimentWeight, 10)),
                            RMul(Rat(technical_score, 100), Rat(TechnicalWeight, 10)))
    IN  Round(total_score, 100)

\* mutant: the sell rule is tried before the strong-sell rule
determine_action_sell_first(sentiment, signals) ==
    LET overall_signal == Get(signals, "overall_signal", "hold")
    IN  IF sentiment >= HighSentiment /\ overall_signal \in BuySide THEN "Strong Buy"
        ELSE IF \/ sentiment >= AggPositive /\ overall_signal = "buy"
                \/ sentiment >= HighSentiment /\ overall_signal = "hold" THEN "Buy"
        ELSE IF \/ sentiment <= AggNegative /\ overall_signal = "sell"
                \/ sentiment <= LowSentiment /\ overall_signal = "hold" THEN "Sell"
        ELSE IF sentiment <= LowSentiment /\ overall_signal \in SellSide THEN "Strong Sell"
        ELSE IF \/ sentiment >= AggPositive /\ overall_signal \in SellSide
                \/ sentiment <= AggNegative /\ overall_signal \in BuySide
        THEN "Hold - Monitor Closely"
        ELSE "Hold"

determine_action(sentiment, signals) ==
    LET overall_signal == Get(signals, "overall_signal", "hold")
    IN  IF sentiment >= HighSentiment /\ overall_signal \in BuySide THEN "Strong Buy"
        ELSE IF \/ sentiment >= AggPositive /\ overall_signal = "buy"
                \/ sentiment >= HighSentiment /\ overall_signal = "hold" THEN "Buy"
        ELSE IF sentiment <= LowSentiment /\ overall_signal \in SellSide THEN "Strong Sell"
        ELSE IF \/ sentiment <= AggNegative /\ overall_signal = "sell"
                \/ sentiment <= LowSentiment /\ overall_signal = "hold" THEN "Sell"
        ELSE IF \/ sentiment >= AggPositive /\ overall_signal \in SellSide
                \/ sentiment <= AggNegative /\ overall_signal \in BuySide
        THEN "Hold - Monitor Closely"
        ELSE "Hold"

determine_priority(score, sentiment, signals) ==
    LET overall_signal == Get(signals, "overall_signal", "hold")
    IN  IF \/ score >= 80 /\ sentiment >= HighSentiment /\ overall_signal = "strong_buy"
           \/ score <= 20 /\ sentiment <= LowSentiment /\ overall_signal = "strong_sell"
        THEN 1
        ELSE IF \/ score >= 70 /\ overall_signal \in BuySide
                \/ score <= 30 /\ overall_signal \in SellSide
        THEN 2
        ELSE IF \/ (40 <= score /\ score <= 60)
                \/ sentiment >= AggPositive /\ overall_signal \in SellSide
                \/ sentiment <= AggNegative /\ overall_signal \in BuySide
        THEN 3
        ELSE IF overall_signal = "hold" THEN 4
        ELSE 5

\* list.sort(key=..., reverse=True): descending by key, equal keys keep
\* their order.  The key is the score, preceded by the priority when the
\* item has one.
\* mutant: the priority is left out of the key
key_less_by_score(a, b) == a.score < b.score

key_less(a, b) ==
    LET pa == Get(a, "priority", 0)
        pb == Get(b, "priority", 0)
    IN  pa < pb \/ (pa = pb /\ a.score < b.score)

RECURSIVE sort_reverse(_)
sort_reverse(items) ==
    IF items = <<>> THEN <<>>
    ELSE LET init == sort_reverse(SubSeq(items, 1, Len(items) - 1))
             x == items[Len(items)]
             pos == Cardinality({j \in 1..Len(init) : ~key_less(init[j], x)})
         IN  SubSeq(init, 1, pos) \o <<x>> \o SubSeq(init, pos + 1, Len(init))

\* agents/utils/agent_utils.py; both dicts are present when this is reached
format_portfolio_summary(st) ==
    LET sentiment_scores == st.sentiment_scores[1]
        technical_signals == st.technical_signals[1]
        keys == first_occurrences(st.tickers)
        n == Len(keys)
        signals_of(t) == Get(Get(technical_signals, t, EmptyDict), "signals", EmptyDict)
        ticker_analysis ==
            [j \in 1..n |->
                [ticker |-> keys[j],
                 sentiment |-> sentiment_scores[keys[j]],
                 signal |-> Get(signals_of(keys[j]), "overall_signal", "hold"),
                 score |-> calculate_ticker_score(sentiment_scores[keys[j]],
                                                  signals_of(keys[j]))]]
        sorted == sort_reverse(ticker_analysis)
        top == SelectSeq(Prefix(sorted, 3), LAMBDA t : t.score > 60)
        alerts == SelectSeq(sorted, LAMBDA t : t.score < 40 \/ t.signal \in SellSide)
        count(S) == Cardinality({j \in 1..n : ticker_analysis[j].signal \in S})
    IN  [total_tickers |-> n,
         overall_sentiment |->
             IF n = 0 THEN RInt(0)
             ELSE Rat(SumInts([j \in 1..n |-> sentiment_scores[keys[j]]]), 1000 * n),
         bullish_count |-> count(BuySide),
         bearish_count |-> count(SellSide),
         neutral_count |-> n - count(BuySide) - count(SellSide),
         top_opportunities |-> [j \in 1..Len(top) |-> top[j].ticker],
         risk_alerts |-> [j \in 1..Len(alerts) |-> alerts[j].ticker]]

HighRisk == Rat(7, 10)
MediumRisk == Rat(4, 10)

calculate_portfolio_risk(st) ==
    LET sentiment_scores == st.sentiment_scores[1]
        technical_signals == st.technical_signals[1]
        keys == first_occurrences(st.tickers)
        n == Len(keys)
        sentiments == [j \in 1..n |-> Rat(sentiment_scores[keys[j]], 1000)]
        avg_sentiment == RDiv(RSumRange(sentiments, 1, n), RInt(n))
        sentiment_variance ==
            RDiv(RSumRange([j \in 1..n |-> RMul(RSub(sentiments[j], avg_sentiment),
                                              RSub(sentiments[j], avg_sentiment))],
                           1, n),
                 RInt(n))
        high_risk_count ==
            Cardinality({j \in 1..n : \/ sentiment_scores[keys[j]] <= LowSentiment
                                      \/ sentiment_scores[keys[j]] >= HighSentiment})
        bearish_count ==
            Cardinality({t \in DOMAIN technical_signals :
                Get(Get(technical_signals[t], "signals", EmptyDict),
                    "overall_signal", "none") \in SellSide})
        \* overall_risk = rest + sqrt(sentiment_variance) / 3
        rest == Rat(bearish_count + high_risk_count, 3 * n)
        third == Rat(1, 3)
    IN  IF n = 0 THEN [error |-> "No data for risk calculation"]
        ELSE [overall_risk_score |-> RoundSqrt(rest, third, sentiment_variance, 100),
              average_sentiment |-> Round(avg_sentiment, 100),
              sentiment_volatility |-> RoundSqrt(RInt(0), RInt(1), sentiment_variance, 100),
              high_risk_positions |-> high_risk_count,
              bearish_signals |-> bearish_count,
              risk_level |->
                  IF SqrtGeq(rest, third, sentiment_variance, HighRisk) THEN "High"
                  ELSE IF SqrtGeq(rest, third, sentiment_variance, MediumRisk) THEN "Medium"
                  ELSE "Low"]

build_recommendations(st) ==
    LET sentiment_scores == st.sentiment_scores[1]
        technical_signals == st.technical_signals[1]
        keys == first_occurrences(st.tickers)
        signals_of(t) == Get(Get(technical_signals, t, EmptyDict), "signals", EmptyDict)
        recommendation(t) ==
            LET sentiment == sentiment_scores[t]
                signals == signals_of(t)
                score == calculate_ticker_score(sentiment, signals)
            IN  [ticker |-> t,
                 action |-> determine_action(sentiment, signals),
                 score |-> score,
                 sentiment |-> sentiment,
                 signal |-> Get(signals, "overall_signal", "hold"),
                 priority |-> determine_priority(score, sentiment, signals)]
    IN  sort_reverse([j \in 1..Len(keys) |-> recommendation(keys[j])])

\* a stage that raised left its dict None: len(None), or None.get, raises
\* inside format_portfolio_summary before anything is written
portfolio_analysis_node(st) ==
    IF ~TruthyColl(st.sentiment_scores) /\ ~TruthyColl(st.technical_signals)
    THEN [st EXCEPT !.error = Some("No analysis data available")]
    ELSE IF IsNone(st.sentiment_scores) \/ IsNone(st.technical_signals)
    THEN [st EXCEPT !.error = Some("Portfolio analysis error")]
    ELSE [st EXCEPT !.portfolio_summary = Some(format_portfolio_summary(st)),
                    !.recommendations = Some(build_recommendations(st)),
                    !.risk_metrics = Some(calculate_portfolio_risk(st))]

format_portfolio_output(final_state) ==
    [tickers |-> final_state.tickers,
     portfolio_summary |-> final_state.portfolio_summary,
     recommendations |-> final_state.recommendations,
     risk_metrics |-> final_state.risk_metrics,
     sentiment_scores |-> final_state.sentiment_scores,
     technical_signals |-> final_state.technical_signals,
     error |-> final_state.error]

\* routes/agent_routes.py.  POST /portfolio takes the list as it is; GET
\* /portfolio/analyze upper-cases each name.  Both raise HTTPException(400)
\* inside the try whose handler turns every exception into a 500.
TickerLimit == 20
upper(t) == IF t = "a" THEN "A" ELSE t
ticker_list(request) ==
    IF request.via = "get"
    THEN [j \in 1..Len(request.tickers) |-> upper(request.tickers[j])]
    ELSE request.tickers
portfolio_route_rejects_above_next(request) ==
    \/ request.via = "post" /\ request.tickers = <<>>
    \/ request.via \in {"post", "get"} /\ Len(ticker_list(request)) > TickerLimit + 1

portfolio_route_rejects(request) ==
    \/ request.via = "post" /\ request.tickers = <<>>
    \/ request.via \in {"post", "get"} /\ Len(ticker_list(request)) > TickerLimit

(***************************************************************************)
(* Actions of the Portfolio workflow.                                      *)
(***************************************************************************)
RawTickers == Tickers \cup {"a"}
LimitLists == {Repeated("A", n) : n \in {TickerLimit, TickerLimit + 1}}
PortfolioRequests ==
    [kind : {"portfolio"}, via : {"direct", "post"},
     tickers : SeqsUpTo(Tickers, MaxTickers) \cup LimitLists]
        \cup [kind : {"portfolio"}, via : {"get"},
              tickers : SeqsUpTo(RawTickers, MaxTickers) \cup LimitLists]

PortfolioNews ==
    {<<>>, <<[scorable |-> FALSE, compound |-> 0]>>}
        \cup {<<[scorable |-> TRUE, compound |-> c]>> : c \in Compounds \ {0}}
PortfolioHistories == {<<>>, <<BadClose>>, FlatJump(ShortWindow, 1, MaxPrice)}
PortfolioFetchResponses(ticker) ==
    {r \in FetchResponses(ticker) :
        /\ r.raise_at \in {"none", "news"}
        /\ r.raise_at = "none" =>
            /\ r.news \in PortfolioNews
            /\ r.historical \in PortfolioHistories
            /\ r.quote = [price |-> 100, symbol |-> ticker]}

RunPortfolio ==
    /\ pc = "call"
    /\ req.kind = "portfolio"
    /\ IF portfolio_route_rejects(req)
       THEN /\ http' = 500
            /\ pc' = "rejected"
            /\ state' = state
       ELSE /\ state' = portfolio_initial_state(ticker_list(req))
            /\ pc' = "fetch"
            /\ http' = http
    /\ UNCHANGED <<req, ran, payload, calls>>

PortfolioFetch ==
    /\ pc = "fetch"
    /\ req.kind = "portfolio"
    /\ \E responses \in [names_of(state.tickers) -> UNION {PortfolioFetchResponses(t) : t \in Tickers}] :
        /\ \A t \in names_of(state.tickers) : responses[t] \in PortfolioFetchResponses(t)
        /\ state' = fetch_portfolio_data(state, responses)
        /\ calls' = calls + SumInts([j \in 1..Len(state.tickers) |->
                                       calls_made(responses[state.tickers[j]])])
    /\ ran' = Append(ran, "fetch")
    /\ pc' = portfolio_after_fetch(state')
    /\ UNCHANGED <<req, payload, http>>

PortfolioSentiment ==
    /\ pc = "sentiment"
    /\ req.kind = "portfolio"
    /\ state' = analyze_portfolio_sentiment(state)
    /\ ran' = Append(ran, "sentiment")
    /\ pc' = portfolio_after_sentiment(state')
    /\ UNCHANGED <<req, payload, calls, http>>

PortfolioIndicators ==
    /\ pc = "indicators"
    /\ req.kind = "portfolio"
    /\ state' = calculate_portfolio_indicators(state)
    /\ ran' = Append(ran, "indicators")
    /\ pc' = portfolio_after_indicators(state')
    /\ UNCHANGED <<req, payload, calls, http>>

PortfolioAnalysis ==
    /\ pc = "analysis"
    /\ req.kind = "portfolio"
    /\ state' = portfolio_analysis_node(state)
    /\ ran' = Append(ran, "analysis")
    /\ pc' = "END"
    /\ UNCHANGED <<req, payload, calls, http>>

PortfolioReturn ==
    /\ pc = "END"
    /\ req.kind = "portfolio"
    /\ LET result == format_portfolio_output(state)
       IN  /\ payload' = Some(result)
           /\ http' = IF req.via = "direct" THEN http ELSE route_status(result)
    /\ pc' = "returned"
    /\ UNCHANGED <<req, state, ran, calls>>

Requests == ResearchRequests \cup SentimentRequests \cup PortfolioRequests

Init ==
    /\ req \in Requests
    /\ state = EmptyDict
    /\ pc = "call"
    /\ ran = <<>>
    /\ payload = None
    /\ calls = 0
    /\ http = 0

Next ==
    \/ RunResearch
    \/ ResearchFetch
    \/ ResearchSentiment
    \/ ResearchIndicators
    \/ ResearchSynthesis
    \/ ResearchReturn
    \/ RunSentiment
    \/ SentimentPreprocess
    \/ SentimentAnalyze
    \/ SentimentPostprocess
    \/ SentimentReturn
    \/ RunPortfolio
    \/ PortfolioFetch
    \/ PortfolioSentiment
    \/ PortfolioIndicators
    \/ PortfolioAnalysis
    \/ PortfolioReturn

Spec == Init /\ [][Next]_vars

(***************************************************************************)
(* SpecFunctions: the numerical primitives and the scoring and decision    *)
(* functions called on their own, one call per behaviour, on arguments     *)
(* drawn from bounded families.                                            *)
(***************************************************************************)
\* tests/test_indicators.py: values = [1, 2, 3, 4, 5]
TestSeries == <<1, 2, 3, 4, 5>>
Series == SeqsUpTo(0..MaxValue, MaxSeries) \cup {TestSeries}
Periods == -1..MaxPeriod
floats(values) == [j \in 1..Len(values) |-> RInt(values[j])]

\* if period < 1: raise ValueError("period must be >= 1")
sma_raises(period) == period < 1
rsi_raises(period) == period < 1

SmaCalls == [fn : {"sma"}, values : Series, period : Periods]
RsiCalls == [fn : {"rsi"}, values : Series, period : Periods]

CallSma ==
    /\ pc = "call"
    /\ req.fn = "sma"
    /\ IF sma_raises(req.period)
       THEN payload' = None /\ pc' = "raised"
       ELSE payload' = Some(sma(floats(req.values), req.period)) /\ pc' = "returned"
    /\ UNCHANGED <<req, state, ran, calls, http>>

CallRsi ==
    /\ pc = "call"
    /\ req.fn = "rsi"
    /\ IF rsi_raises(req.period)
       THEN payload' = None /\ pc' = "raised"
       ELSE payload' = Some(rsi(floats(req.values), req.period)) /\ pc' = "returned"
    /\ UNCHANGED <<req, state, ran, calls, http>>

\* the classifier returns the compound rounded to four decimals, in [-1, 1]
CompoundScale == 10000
CompoundRange == (-CompoundScale)..CompoundScale
AnalyzeCalls == [fn : {"analyze_sentiment"}, compound : CompoundRange]

CallAnalyzeSentiment ==
    /\ pc = "call"
    /\ req.fn = "analyze_sentiment"
    /\ payload' = Some(analyze_sentiment(req.compound))
    /\ pc' = "returned"
    /\ UNCHANGED <<req, state, ran, calls, http>>

\* per-text results around the cuts of the overall label
AggCompounds == {-8000, -2000, 0, 1000, 2000, 8000}
PerTextResults == {analyze_sentiment(c) : c \in AggCompounds}
AggregateCalls ==
    [fn : {"aggregate_sentiments"}, results : SeqsUpTo(PerTextResults, MaxResults)]

CallAggregateSentiments ==
    /\ pc = "call"
    /\ req.fn = "aggregate_sentiments"
    /\ payload' = Some(aggregate_sentiments(req.results))
    /\ pc' = "returned"
    /\ UNCHANGED <<req, state, ran, calls, http>>

\* a sentiment score is a number of thousandths in [0, 1]; signals is the
\* dict of generate_trading_signals, or an empty dict
SentimentScores == 0..1000
SignalDicts == {EmptyDict} \cup
    {[overall_signal |-> l] : l \in {"strong_buy", "buy", "hold", "sell", "strong_sell"}}
TickerScoreCalls ==
    [fn : {"calculate_ticker_score"}, sentiment : SentimentScores, signals : SignalDicts]
ActionCalls ==
    [fn : {"determine_action"}, sentiment : SentimentScores, signals : SignalDicts]

CallTickerScore ==
    /\ pc = "call"
    /\ req.fn = "calculate_ticker_score"
    /\ payload' = Some(calculate_ticker_score(req.sentiment, req.signals))
    /\ pc' = "returned"
    /\ UNCHANGED <<req, state, ran, calls, http>>

CallDetermineAction ==
    /\ pc = "call"
    /\ req.fn = "determine_action"
    /\ payload' = Some(determine_action(req.sentiment, req.signals))
    /\ pc' = "returned"
    /\ UNCHANGED <<req, state, ran, calls, http>>

\* the record as portfolio_analysis_node hands it over: the same tickers in
\* both dicts
SentimentGrid == {60 * k : k \in 0..MaxGrid}
RiskSignals == {"hold", "sell", "strong_sell"}
DistinctLists ==
    {q \in SeqsUpTo(Tickers, Cardinality(Tickers)) :
        q # <<>> /\ \A i, j \in 1..Len(q) : i # j => q[i] # q[j]}
PortfolioRiskCalls ==
    UNION {[fn : {"calculate_portfolio_risk"},
            tickers : {q},
            sentiment_scores : [names_of(q) -> SentimentGrid],
            overall_signals : [names_of(q) -> RiskSignals]] : q \in DistinctLists}
risk_state(call) ==
    [tickers |-> call.tickers,
     sentiment_scores |-> Some(call.sentiment_scores),
     technical_signals |->
         Some([t \in DOMAIN call.overall_signals |->
                  [signals |-> [overall_signal |-> call.overall_signals[t]]]])]

CallPortfolioRisk ==
    /\ pc = "call"
    /\ req.fn = "calculate_portfolio_risk"
    /\ payload' = Some(calculate_portfolio_risk(risk_state(req)))
    /\ pc' = "returned"
    /\ UNCHANGED <<req, state, ran, calls, http>>

\* the record as synthesis_node hands it over; indicators holds the signals,
\* or only an error when there was no history
RecommendationCalls ==
    [fn : {"generate_recommendations"}, sentiment_score : SentimentScores,
     signals : SignalDicts]
recommendation_state(call) ==
    [sentiment_score |-> Some(call.sentiment_score),
     indicators |-> Some(IF call.signals = EmptyDict
                         THEN [error |-> "No historical data"]
                         ELSE [signals |-> call.signals])]

CallGenerateRecommendations ==
    /\ pc = "call"
    /\ req.fn = "generate_recommendations"
    /\ payload' = Some(generate_recommendations(recommendation_state(req)))
    /\ pc' = "returned"
    /\ UNCHANGED <<req, state, ran, calls, http>>

FunctionCalls ==
    SmaCalls \cup RsiCalls \cup AnalyzeCalls \cup AggregateCalls \cup TickerScoreCalls
    \cup ActionCalls \cup PortfolioRiskCalls \cup RecommendationCalls

InitFunctions ==
    /\ req \in FunctionCalls
    /\ state = EmptyDict
    /\ pc = "call"
    /\ ran = <<>>
    /\ payload = None
    /\ calls = 0
    /\ http = 0

NextFunctions ==
    \/ CallSma
    \/ CallRsi
    \/ CallAnalyzeSentiment
    \/ CallAggregateSentiments
    \/ CallTickerScore
    \/ CallDetermineAction
    \/ CallPortfolioRisk
    \/ CallGenerateRecommendations

SpecFunctions == InitFunctions /\ [][NextFunctions]_vars

(***************************************************************************)
(* Claims about the signal generator and the indicator engine.             *)
(***************************************************************************)
Labels == {"strong_buy", "buy", "hold", "sell", "strong_sell"}

\* C8: for every indicator set, strength is an integer in [-4,4] and
\* overall_signal is strong_buy when strength >= 2, buy when it is 1, sell
\* when it is -1, strong_sell when it is <= -2 and hold when it is 0, so
\* that every strength has exactly one label.
C8_StrengthAndOverall ==
    pc = "returned" =>
        LET sig == payload[1]
        IN  /\ sig.strength \in -4..4
            /\ sig.overall_signal \in Labels
            /\ (sig.overall_signal = "strong_buy") <=> (sig.strength >= 2)
            /\ (sig.overall_signal = "buy") <=> (sig.strength = 1)
            /\ (sig.overall_signal = "hold") <=> (sig.strength = 0)
            /\ (sig.overall_signal = "sell") <=> (sig.strength = -1)
            /\ (sig.overall_signal = "strong_sell") <=> (sig.strength <= -2)

C8_Witness ==
    /\ pc = "returned"
    /\ payload[1].strength = 4
    /\ payload[1].overall_signal = "strong_buy"

\* the bullish and bearish tests of section 4.2, read off the input
RsiBull  == "current" \in DOMAIN req.rsi /\ req.rsi.current < 3000
RsiBear  == "current" \in DOMAIN req.rsi /\ req.rsi.current > 7000
MacdBull == req.macd # EmptyDict /\ req.macd.macd > req.macd.signal
MacdBear == req.macd # EmptyDict /\ req.macd.macd < req.macd.signal
BandBull == req.bollinger # EmptyDict /\ req.bollinger.current_price < req.bollinger.lower_band
BandBear == req.bollinger # EmptyDict /\ req.bollinger.current_price > req.bollinger.upper_band
MaBull   == req.moving_averages # EmptyDict
            /\ req.moving_averages.sma_50 > req.moving_averages.sma_200
MaBear   == req.moving_averages # EmptyDict
            /\ req.moving_averages.sma_50 < req.moving_averages.sma_200
Count(b) == IF b THEN 1 ELSE 0
LabelOf(bull, bear, up, down) == IF bull THEN up ELSE IF bear THEN down ELSE "neutral"

\* C9: strength is the number of indicators whose bullish test holds minus
\* the number whose bearish test holds, every indicator counting once, and
\* each per-indicator label is the bullish label, the bearish label or
\* neutral according to its own test.
C9_Additive ==
    pc = "returned" =>
        LET sig == payload[1]
        IN  /\ sig.strength = (Count(RsiBull) + Count(MacdBull) + Count(BandBull) + Count(MaBull))
                            - (Count(RsiBear) + Count(MacdBear) + Count(BandBear) + Count(MaBear))
            /\ sig.rsi_signal = LabelOf(RsiBull, RsiBear, "oversold_buy", "overbought_sell")
            /\ sig.macd_signal = LabelOf(MacdBull, MacdBear, "bullish", "bearish")
            /\ sig.bollinger_signal = LabelOf(BandBull, BandBear, "oversold_buy", "overbought_sell")
            /\ sig.ma_signal = LabelOf(MaBull, MaBear, "golden_cross_buy", "death_cross_sell")

C9_Witness ==
    /\ pc = "returned"
    /\ RsiBull /\ MacdBear /\ BandBull /\ MaBear
    /\ payload[1].strength = 0

NumCloses == Len(closes_of(req.historical_data))

\* C10: for every price history the four calculate_* functions return
\* without raising, and an indicator without enough history (RSI < 15
\* closes, MACD < 35, Bollinger < 20, moving averages < 200) is labelled
\* neutral by generate_trading_signals and adds 0 to strength.
C10_ShortHistoryNeutral ==
    pc = "returned" =>
        LET r == payload[1]
        IN  /\ ~r.raised
            /\ NumCloses < RsiPeriod + 1 => r.signals.rsi_signal = "neutral"
            /\ NumCloses < SlowPeriod + SignalPeriod => r.signals.macd_signal = "neutral"
            /\ NumCloses < BollingerPeriod => r.signals.bollinger_signal = "neutral"
            /\ NumCloses < LongWindow => r.signals.ma_signal = "neutral"

\* the part of C10 that does hold: RSI, MACD and Bollinger degrade to
\* neutral, and so do the moving averages below ShortWindow closes
C10_NeutralBelowShortWindow ==
    pc = "returned" =>
        LET r == payload[1]
        IN  /\ ~r.raised
            /\ NumCloses < RsiPeriod + 1 => r.signals.rsi_signal = "neutral"
            /\ NumCloses < SlowPeriod + SignalPeriod => r.signals.macd_signal = "neutral"
            /\ NumCloses < BollingerPeriod => r.signals.bollinger_signal = "neutral"
            /\ NumCloses < ShortWindow => r.signals.ma_signal = "neutral"

(***************************************************************************)
(* Claims about the Research workflow.                                     *)
(***************************************************************************)
ResearchOrders ==
    {<<>>, <<"fetch">>, <<"fetch", "sentiment">>,
     <<"fetch", "sentiment", "indicators">>,
     <<"fetch", "sentiment", "indicators", "synthesis">>,
     <<"fetch", "synthesis">>}
Ran(stage) == \E j \in 1..Len(ran) : ran[j] = stage
Finished == pc \in {"END", "raised", "returned"}
\* the fetch stage ran and raised: it wrote the error and no data
ResearchFetchFailed ==
    req.kind = "research" /\ Ran("fetch") /\ IsNone(state.stock_data)

\* C1: in the Research workflow the stages run in the order fetch,
\* sentiment, indicators, synthesis; when fetch leaves the error set the next
\* stage is synthesis and neither sentiment nor indicators runs; once the
\* sentiment stage has run, indicators and then synthesis run whatever error
\* those stages set.
C1_ResearchStageOrder ==
    req.kind = "research" =>
        /\ ran \in ResearchOrders
        /\ (ran = <<"fetch">> /\ TruthyStr(state.error) => pc = "synthesis")
        /\ (ResearchFetchFailed => ~Ran("sentiment") /\ ~Ran("indicators"))
        /\ (ran = <<"fetch", "sentiment">> => pc = "indicators")
        /\ (ran = <<"fetch", "sentiment", "indicators">> => pc = "synthesis")
        /\ (Finished /\ Ran("sentiment") => Ran("synthesis"))

\* a fetch failure was followed by synthesis alone
C1_Witness ==
    /\ req.kind = "research"
    /\ ResearchFetchFailed
    /\ ran = <<"fetch", "synthesis">>
    /\ pc = "END"

\* the fetch returned without error, with no articles, a failed quote lookup
\* and an empty history
ResearchNothingFetched ==
    /\ req.kind = "research"
    /\ Ran("fetch")
    /\ ~IsNone(state.stock_data)
    /\ state.news_data = Some(<<>>)
    /\ "error" \in DOMAIN state.stock_data[1].current
    /\ state.stock_data[1].historical = <<>>

\* C2: in the Research workflow, when fetch completes without error but
\* there are no articles and no usable price data (quote lookup failed,
\* history empty), the workflow terminates right after fetch and the
\* sentiment, indicators and synthesis stages do not run.
C2_NoDataEndsAfterFetch ==
    ResearchNothingFetched => ran = <<"fetch">> /\ pc \in {"END", "returned"}

(***************************************************************************)
(* Claims about the Sentiment-only workflow.                               *)
(***************************************************************************)
Blank(text) == \A i \in 1..Len(text) : text[i] = " "
AllBlank(texts) == \A j \in 1..Len(texts) : Blank(texts[j])
SentimentReturned == req.kind = "sentiment" /\ pc = "returned"
PreprocessStrips ==
    req.kind = "sentiment" /\ Ran("preprocess") =>
        /\ \A j \in 1..Len(state.texts) : ~Blank(state.texts[j])
        /\ Len(state.texts) = Len(SelectSeq(req.texts, LAMBDA t : ~Blank(t)))

\* C3 as stated: preprocess removes every empty or whitespace-only entry,
\* and for every input list whose entries are all empty or whitespace-only,
\* the empty list included, the workflow terminates after preprocess without
\* running analyze or postprocess and returns a payload whose error is null.
C3_AllBlankEndsWithoutError ==
    /\ PreprocessStrips
    /\ SentimentReturned /\ AllBlank(req.texts) =>
           ran = <<"preprocess">> /\ payload[1].error = None

\* C3: preprocess removes every empty or whitespace-only entry; for every
\* input list whose entries are all empty or whitespace-only the workflow
\* terminates after preprocess without running analyze or postprocess; the
\* payload's error is null when the list is non-empty, and is "No texts
\* provided for analysis" when the list is empty.
C3_AllBlankEndsAfterPreprocess ==
    /\ PreprocessStrips
    /\ SentimentReturned /\ AllBlank(req.texts) =>
           /\ ran = <<"preprocess">>
           /\ req.texts # <<>> => payload[1].error = None
           /\ req.texts = <<>> =>
                  payload[1].error = Some("No texts provided for analysis")

\* a list of two whitespace-only texts ended after preprocess without error
C3_Witness ==
    /\ SentimentReturned
    /\ req.texts = << <<" ", " ">>, <<" ">> >>
    /\ ran = <<"preprocess">>
    /\ state.texts = <<>>
    /\ payload[1].error = None

(***************************************************************************)
(* Claims about the Portfolio workflow.                                    *)
(***************************************************************************)
PortfolioFetched == req.kind = "portfolio" /\ Ran("fetch")
\* what the fetch stage recorded for ticker t; no record counts as a failure
FetchedFor(t) ==
    IF ~IsNone(state.stocks_data) /\ t \in DOMAIN state.stocks_data[1]
    THEN state.stocks_data[1][t] ELSE [error |-> "not recorded"]
FetchFailed(t) == "error" \in DOMAIN FetchedFor(t)
StageRaisesFor(t) ==
    \/ ticker_sentiment_raises(FetchedFor(t))
    \/ ticker_indicators_raise(FetchedFor(t))
Requested == names_of(state.tickers)
RecommendationsReturned ==
    IF IsNone(payload[1].recommendations) THEN <<>> ELSE payload[1].recommendations[1]
EntriesFor(t) ==
    {j \in 1..Len(RecommendationsReturned) : RecommendationsReturned[j].ticker = t}

C5_StageFailureIsolated ==
    PortfolioFetched /\ pc = "returned" =>
        \A t \in Requested, u \in Requested :
            StageRaisesFor(t) /\ u # t /\ ~StageRaisesFor(u) =>
                /\ ~IsNone(payload[1].sentiment_scores)
                /\ u \in DOMAIN payload[1].sentiment_scores[1]
                /\ ~IsNone(payload[1].technical_signals)
                /\ u \in DOMAIN payload[1].technical_signals[1]
                /\ EntriesFor(u) # {}

Carries(value, field) == ~IsNone(state[field]) => value = state[field]

\* C7: every invocation of run_research_analysis, run_sentiment_analysis
\* and run_portfolio_analysis returns a payload on every path; the payload
\* has an error field, and it holds every result the stages wrote to the
\* record.
C7_PayloadKeepsPartialResults ==
    pc = "returned" =>
        /\ payload # None
        /\ "error" \in DOMAIN payload[1]
        /\ req.kind = "research" =>
            /\ "sentiment" \in DOMAIN payload[1] \/ IsNone(state.sentiment_score)
            /\ "sentiment" \in DOMAIN payload[1] =>
                /\ Carries(payload[1].sentiment.score, "sentiment_score")
                /\ Carries(payload[1].sentiment.analysis, "sentiment_analysis")
                /\ Carries(payload[1].technical, "indicators")
                /\ Carries(payload[1].summary, "research_summary")
                /\ Carries(payload[1].recommendations, "recommendations")
        /\ req.kind = "sentiment" =>
            /\ Carries(payload[1].aggregated, "aggregated_sentiment")
            /\ Carries(payload[1].individual, "individual_sentiments")
            /\ Carries(payload[1].key_topics, "key_topics")
            /\ Carries(payload[1].confidence, "confidence_score")
        /\ req.kind = "portfolio" =>
            /\ Carries(payload[1].sentiment_scores, "sentiment_scores")
            /\ Carries(payload[1].technical_signals, "technical_signals")
            /\ Carries(payload[1].portfolio_summary, "portfolio_summary")
            /\ Carries(payload[1].recommendations, "recommendations")
            /\ Carries(payload[1].risk_metrics, "risk_metrics")

(***************************************************************************)
(* Claims about the numerical primitives (SpecFunctions).                  *)
(***************************************************************************)
Returned(fn) == req.fn = fn /\ pc = "returned"
Called(fn) == req.fn = fn /\ pc # "call"

\* C11: sma(values, period) returns a list as long as values whose entry i
\* is None for every i < period-1 and is the arithmetic mean of
\* values[i-period+1..i] for every i >= period-1 (sma([1,2,3,4,5],3) is
\* [None, None, 2, 3, 4]); it raises, returning no list, when period < 1.
C11_SmaWindowMean ==
    Called("sma") =>
        IF req.period < 1 THEN pc = "raised" /\ payload = None
        ELSE /\ pc = "returned"
             /\ Len(payload[1]) = Len(req.values)
             /\ \A j \in 1..Len(req.values) :
                    IF j < req.period THEN payload[1][j] = None
                    ELSE /\ payload[1][j] # None
                         /\ payload[1][j][1].n * req.period =
                                payload[1][j][1].d *
                                SumInts(SubSeq(req.values, j - req.period + 1, j))
             /\ (req.values = TestSeries /\ req.period = 3) =>
                    payload[1] = <<None, None, Some(RInt(2)), Some(RInt(3)), Some(RInt(4))>>

\* the call of the test has returned, two windows short and three full
C11_Witness ==
    /\ Returned("sma")
    /\ req.values = TestSeries /\ req.period = 3
    /\ payload[1][2] = None
    /\ payload[1][5] = Some(RInt(4))

NoLossUpTo(j) == \A k \in 2..j : req.values[k] >= req.values[k - 1]

\* C12: for every series and every period >= 1, rsi returns a list as long
\* as the input whose entries at indices 0..period-1 are None and whose
\* entries at indices >= period are non-null, lie in [0, 100], and are
\* exactly 100 wherever the smoothed average loss is 0 (no close so far
\* was below its predecessor).
C12_RsiAlignedAndBounded ==
    Called("rsi") /\ req.period >= 1 =>
        /\ pc = "returned"
        /\ Len(payload[1]) = Len(req.values)
        /\ \A j \in 1..Len(req.values) :
               IF j <= req.period THEN payload[1][j] = None
               ELSE /\ payload[1][j] # None
                    /\ 0 <= payload[1][j][1].n
                    /\ payload[1][j][1].n <= 100 * payload[1][j][1].d
                    /\ NoLossUpTo(j) => payload[1][j][1] = RInt(100)

\* a series with a loss after the warm-up: one value is 100, a later one is
\* strictly between 0 and 100
C12_Witness ==
    /\ Returned("rsi")
    /\ req.period = 2
    /\ Len(req.values) = 4
    /\ payload[1][3] = Some(RInt(100))
    /\ payload[1][4] # None
    /\ 0 < payload[1][4][1].n
    /\ payload[1][4][1].n < 100 * payload[1][4][1].d

(***************************************************************************)
(* Claims about the sentiment scorer (SpecFunctions).  Scores and          *)
(* confidences are in thousandths, compounds in ten-thousandths.           *)
(***************************************************************************)
SentimentLabels == {"positive", "negative", "neutral"}
LabelOfCompound(c) ==
    IF c >= 500 THEN "positive" ELSE IF c <= -500 THEN "negative" ELSE "neutral"

\* C13 as stated: for every compound c in [-1, 1], analyze_sentiment returns
\* score = (c+1)/2, confidence = |c|, and the label positive when
\* c >= 0.05, negative when c <= -0.05, neutral otherwise.
C13_ScoreIsExactlyNormalized ==
    Returned("analyze_sentiment") =>
        /\ 20 * payload[1].score = req.compound + CompoundScale
        /\ 10 * payload[1].confidence = Abs(req.compound)
        /\ payload[1].label = LabelOfCompound(req.compound)

\* C13 amended: for every compound c in [-1, 1], analyze_sentiment returns
\* score = (c+1)/2 rounded to three decimals, in [0, 1], confidence = |c|
\* rounded to three decimals, in [0, 1], and the label positive when
\* c >= 0.05, negative when c <= -0.05, neutral otherwise (decided on the
\* unrounded c); the label is always one of those three values.
C13_ScoreIsRoundedNormalized ==
    Returned("analyze_sentiment") =>
        /\ Abs(20 * payload[1].score - (req.compound + CompoundScale)) <= 10
        /\ payload[1].score \in 0..1000
        /\ Abs(10 * payload[1].confidence - Abs(req.compound)) <= 5
        /\ payload[1].confidence \in 0..1000
        /\ payload[1].label = LabelOfCompound(req.compound)
        /\ payload[1].label \in SentimentLabels

\* a compound of 0.0499: neutral, with a reported confidence of 0.05
C13_Witness ==
    /\ Returned("analyze_sentiment")
    /\ req.compound = 499
    /\ payload[1].label = "neutral"
    /\ payload[1].confidence = 50

ScoreSum == SumInts([j \in 1..Len(req.results) |-> req.results[j].score])
LabelOfMean(sum, n) ==
    IF sum >= 600 * n THEN "positive" ELSE IF sum <= 400 * n THEN "negative" ELSE "neutral"
EmptyAggregate == [score |-> 500, label |-> "neutral", confidence |-> 0, count |-> 0]

\* C14 as stated: aggregate_sentiments returns {score 0.5, label neutral,
\* confidence 0, count 0} for the empty list and, for a non-empty list, a
\* score equal to the mean of the normalized scores, count equal to the
\* number of results, and the label positive when the mean is >= 0.6,
\* negative when it is <= 0.4, neutral otherwise.
C14_ScoreIsExactMean ==
    Returned("aggregate_sentiments") =>
        IF req.results = <<>> THEN payload[1] = EmptyAggregate
        ELSE /\ payload[1].score * Len(req.results) = ScoreSum
             /\ payload[1].count = Len(req.results)
             /\ payload[1].label = LabelOfMean(ScoreSum, Len(req.results))

\* C14 amended: as stated, except that the score of a non-empty list is the
\* mean of the normalized scores rounded to three decimals (the label is
\* decided on the unrounded mean).
C14_ScoreIsRoundedMean ==
    Returned("aggregate_sentiments") =>
        IF req.results = <<>> THEN payload[1] = EmptyAggregate
        ELSE /\ 2 * Abs(payload[1].score * Len(req.results) - ScoreSum) <= Len(req.results)
             /\ payload[1].count = Len(req.results)
             /\ payload[1].label = LabelOfMean(ScoreSum, Len(req.results))

\* three results, each positive on its own, whose mean 0.5667 is reported
\* as 0.567 and labelled neutral
C14_Witness ==
    /\ Returned("aggregate_sentiments")
    /\ Len(req.results) = 3
    /\ \A j \in 1..3 : req.results[j].label = "positive"
    /\ payload[1].label = "neutral"
    /\ payload[1].score = 567

(***************************************************************************)
(* Claims about the scoring and decision functions (SpecFunctions).        *)
(* Ticker scores are in hundredths, sentiments in thousandths.             *)
(***************************************************************************)
SignalGiven == Get(req.signals, "overall_signal", "none")
\* the technical score of the claim's table, in hundredths
TableScore ==
    CASE SignalGiven = "strong_buy" -> 100
      [] SignalGiven = "buy" -> 75
      [] SignalGiven = "hold" -> 50
      [] SignalGiven = "sell" -> 25
      [] SignalGiven = "strong_sell" -> 0
      [] SignalGiven = "none" -> 50
\* 0.6 * sentiment + 0.4 * technical_score, in ten-thousandths
WeightedTotal == 6 * req.sentiment + 40 * TableScore

\* C15 as stated: calculate_ticker_score(sentiment, signals) equals
\* 0.6*sentiment + 0.4*technical_score, with technical_score 1.0, 0.75,
\* 0.5, 0.25, 0.0 for strong_buy, buy, hold, sell, strong_sell and 0.5
\* without a signal; it is 1.0 for (1.0, strong_buy), 0.0 for
\* (0.0, strong_sell), and lies in [0, 1].
C15_ScoreIsExactlyWeighted ==
    Returned("calculate_ticker_score") =>
        /\ 100 * payload[1] = WeightedTotal
        /\ payload[1] \in 0..100

\* C15 amended: calculate_ticker_score(sentiment, signals) equals
\* 0.6*sentiment + 0.4*technical_score rounded to two decimals, with the
\* same table; it is 1.0 for (1.0, strong_buy), 0.0 for (0.0, strong_sell),
\* and lies in [0, 1] for every sentiment in [0, 1].
C15_ScoreIsRoundedWeighted ==
    Returned("calculate_ticker_score") =>
        /\ Abs(100 * payload[1] - WeightedTotal) <= 50
        /\ payload[1] \in 0..100
        /\ (req.sentiment = 1000 /\ SignalGiven = "strong_buy") => payload[1] = 100
        /\ (req.sentiment = 0 /\ SignalGiven = "strong_sell") => payload[1] = 0

\* sentiment 0.633 with a buy signal: 0.6798, returned as 0.68
C15_Witness ==
    /\ Returned("calculate_ticker_score")
    /\ req.sentiment = 633
    /\ SignalGiven = "buy"
    /\ payload[1] = 68

\* the rules of the claim, first match first
ActionByRules ==
    LET s == req.sentiment
        g == Get(req.signals, "overall_signal", "hold")
    IN  CASE s >= 700 /\ g \in {"buy", "strong_buy"} -> "Strong Buy"
          [] OTHER ->
        CASE (s >= 600 /\ g = "buy") \/ (s >= 700 /\ g = "hold") -> "Buy"
          [] OTHER ->
        CASE s <= 300 /\ g \in {"sell", "strong_sell"} -> "Strong Sell"
          [] OTHER ->
        CASE (s <= 400 /\ g = "sell") \/ (s <= 300 /\ g = "hold") -> "Sell"
          [] OTHER ->
        CASE (s >= 600 /\ g \in {"sell", "strong_sell"})
               \/ (s <= 400 /\ g \in {"buy", "strong_buy"}) -> "Hold - Monitor Closely"
          [] OTHER -> "Hold"

\* C16: determine_action is a total function of (sentiment, overall_signal)
\* whose result is the action of the first matching rule, in the order
\* Strong Buy, Buy, Strong Sell, Sell, Hold - Monitor Closely, else Hold.
C16_FirstMatchingRule ==
    Called("determine_action") =>
        /\ pc = "returned"
        /\ payload[1] = ActionByRules

\* sentiment 0.3 with a sell signal matches the strong-sell rule and the
\* sell rule: the earlier one decides
C16_Witness ==
    /\ Returned("determine_action")
    /\ req.sentiment = 300
    /\ Get(req.signals, "overall_signal", "hold") = "sell"
    /\ payload[1] = "Strong Sell"

(***************************************************************************)
(* Claims about the recommendations of the Portfolio workflow (Spec).      *)
(***************************************************************************)
PortfolioReturned == req.kind = "portfolio" /\ pc = "returned"

\* C17: every Recommendation produced by the Portfolio workflow has an
\* integer priority in [1, 5] and a score in [0, 1], and the returned list
\* is ordered by priority descending and, among equal priorities, by score
\* descending.
C17_RecommendationsOrdered ==
    PortfolioReturned =>
        /\ \A j \in 1..Len(RecommendationsReturned) :
               /\ RecommendationsReturned[j].priority \in 1..5
               /\ RecommendationsReturned[j].score \in 0..100
        /\ \A j, k \in 1..Len(RecommendationsReturned) :
               j < k =>
                   \/ RecommendationsReturned[j].priority > RecommendationsReturned[k].priority
                   \/ /\ RecommendationsReturned[j].priority = RecommendationsReturned[k].priority
                      /\ RecommendationsReturned[j].score >= RecommendationsReturned[k].score

\* two recommendations returned, the first with the larger priority number
\* although its score is the smaller
C17_Witness ==
    /\ PortfolioReturned
    /\ Len(RecommendationsReturned) = 2
    /\ RecommendationsReturned[1].priority > RecommendationsReturned[2].priority
    /\ RecommendationsReturned[1].score < RecommendationsReturned[2].score

(***************************************************************************)
(* Claims about the risk metrics (SpecFunctions).  The reported risk score *)
(* is in hundredths.                                                       *)
(***************************************************************************)
RiskN == Len(req.tickers)
RiskSentiment(j) == Rat(req.sentiment_scores[req.tickers[j]], 1000)
RiskMean == RDiv(RSumRange([j \in 1..RiskN |-> RiskSentiment(j)], 1, RiskN), RInt(RiskN))
\* the population variance of the sentiments
RiskVariance ==
    RDiv(RSumRange([j \in 1..RiskN |->
                       RMul(RSub(RiskSentiment(j), RiskMean),
                            RSub(RiskSentiment(j), RiskMean))], 1, RiskN),
         RInt(RiskN))
BearishFraction ==
    Rat(Cardinality({t \in DOMAIN req.overall_signals :
                        req.overall_signals[t] \in {"sell", "strong_sell"}}), RiskN)
ExtremeFraction ==
    Rat(Cardinality({t \in DOMAIN req.sentiment_scores :
                        \/ req.sentiment_scores[t] <= 300
                        \/ req.sentiment_scores[t] >= 700}), RiskN)
\* the mean of the three factors is FractionsThird + sqrt(RiskVariance) / 3
FractionsThird == RDiv(RAdd(BearishFraction, ExtremeFraction), RInt(3))
MeanOfFactorsGeq(y) == SqrtGeq(FractionsThird, Rat(1, 3), RiskVariance, y)
MeanOfFactorsLeq(y) ==
    SqrtGeq(RSub(RInt(0), FractionsThird), Rat(-1, 3), RiskVariance, RSub(RInt(0), y))
LevelOfReported(p) == IF p >= 70 THEN "High" ELSE IF p >= 40 THEN "Medium" ELSE "Low"

\* C18: for every non-empty set of per-ticker sentiment scores in [0, 1],
\* calculate_portfolio_risk reports overall_risk_score as the unweighted
\* mean of (population standard deviation of the sentiments, fraction of
\* tickers with a sell or strong_sell signal, fraction of tickers with
\* sentiment <= 0.3 or >= 0.7) (read here as: that mean to the two
\* decimals reported), the score lies in [0, 1], and risk_level is High
\* exactly when the reported overall_risk_score is >= 0.7, Medium when it
\* is >= 0.4 and < 0.7, and Low otherwise.
C18_LevelMatchesReportedScore ==
    Returned("calculate_portfolio_risk") =>
        /\ MeanOfFactorsGeq(Rat(2 * payload[1].overall_risk_score - 1, 200))
        /\ MeanOfFactorsLeq(Rat(2 * payload[1].overall_risk_score + 1, 200))
        /\ payload[1].overall_risk_score \in 0..100
        /\ payload[1].risk_level = LevelOfReported(payload[1].overall_risk_score)

(***************************************************************************)
(* Claims about the synthesis of the Research workflow (Spec).             *)
(***************************************************************************)
ResearchReturned == req.kind = "research" /\ pc = "returned"
RiskScoreReturned ==
    /\ ResearchReturned
    /\ "risk_score" \in DOMAIN payload[1]
    /\ payload[1].risk_score # None
\* the sentiment analysis and the signal strength the risk score was computed from
AnalysisUsed == state.sentiment_analysis[1]
ArticlesAnalysed == Get(AnalysisUsed, "article_count", 0)
StrengthUsed == Abs(Get(Get(state.indicators[1], "signals", EmptyDict), "strength", 0))
\* factor (a): 1 - |positive_count - negative_count| / article_count
BalanceFactor ==
    RSub(RInt(1), Rat(Abs(AnalysisUsed.positive_count - AnalysisUsed.negative_count),
                      ArticlesAnalysed))
\* factor (b): the table on |strength|
AlignmentFactor ==
    IF StrengthUsed >= 3 THEN Rat(2, 10)
    ELSE IF StrengthUsed = 2 THEN Rat(4, 10)
    ELSE IF StrengthUsed = 1 THEN Rat(6, 10)
    ELSE Rat(8, 10)

\* C19: for a single-ticker record with article_count > 0,
\* calculate_risk_score is the average of (a) and (b); when no articles were
\* analysed only factor (b) is used; the result always lies in [0, 1].
C19_RiskScoreFactors ==
    RiskScoreReturned =>
        /\ payload[1].risk_score[1] =
               IF ArticlesAnalysed > 0
               THEN RDiv(RAdd(BalanceFactor, AlignmentFactor), RInt(2))
               ELSE AlignmentFactor
        /\ RLeq(RInt(0), payload[1].risk_score[1])
        /\ RLeq(payload[1].risk_score[1], RInt(1))

(***************************************************************************)
(* Claims about generate_recommendations (SpecFunctions).                  *)
(***************************************************************************)
DefaultRecommendation == "Hold current position and monitor for changes"
SignalRead == Get(req.signals, "overall_signal", "hold")
SentimentRuleFired == req.sentiment_score >= 700 \/ req.sentiment_score <= 300
SignalRuleFired == SignalRead # "hold"
CombinedRuleFired ==
    /\ SignalRead \in {"buy", "strong_buy", "sell", "strong_sell"}
    /\ req.sentiment_score >= 600 \/ req.sentiment_score <= 400
RulesFired ==
    Cardinality({r \in {"sentiment", "signal", "combined"} :
        \/ r = "sentiment" /\ SentimentRuleFired
        \/ r = "signal" /\ SignalRuleFired
        \/ r = "combined" /\ CombinedRuleFired})
HasDefault == \E j \in 1..Len(payload[1]) : payload[1][j] = DefaultRecommendation

\* C20: generate_recommendations always returns a non-empty list: it
\* contains the default hold recommendation if and only if none of the
\* sentiment rule, the signal rule and the combined-alignment rule fired,
\* and in that case the default is the only entry; otherwise it contains
\* one entry per fired rule, at most three.
C20_DefaultIffNoRuleFired ==
    Returned("generate_recommendations") =>
        /\ payload[1] # <<>>
        /\ HasDefault <=> RulesFired = 0
        /\ RulesFired = 0 => payload[1] = <<DefaultRecommendation>>
        /\ RulesFired > 0 => Len(payload[1]) = RulesFired
        /\ Len(payload[1]) <= 3

\* the three rules fired together
C20_Witness ==
    /\ Returned("generate_recommendations")
    /\ req.sentiment_score >= 700
    /\ SignalRead = "strong_buy"
    /\ Len(payload[1]) = 3
    /\ ~HasDefault

(***************************************************************************)
(* Claims about the analysis record of a running invocation (Spec).        *)
(***************************************************************************)
\* the fields a stage may leave null; ticker, tickers and texts are never null
NullableFields(st) == DOMAIN st \ {"ticker", "tickers", "texts"}

RecordKept(before, after) ==
    /\ DOMAIN before \subseteq DOMAIN after
    /\ \A k \in NullableFields(before) : ~IsNone(before[k]) => ~IsNone(after[k])

\* C22: the record never shrinks: no step of an invocation removes a field
\* of the record, none resets a non-null field to null, and in particular an
\* error that is non-null stays non-null until the invocation returns.
C22_RecordNeverShrinks == [][RecordKept(state, state')]_vars

\* the sentiment stage of a Research run left an error and a score, and two
\* further stages have run over the record
C22_Witness ==
    /\ req.kind = "research"
    /\ ran = <<"fetch", "sentiment", "indicators", "synthesis">>
    /\ ~IsNone(state.error)
    /\ ~IsNone(state.sentiment_score)
    /\ ~IsNone(state.indicators)

\* C23: when the fetch stage of a Research run fails, the degraded run still
\* delivers the synthesis output: the returned payload has a non-null
\* summary and a non-empty recommendations list, and its error is the fetch
\* error, not the error of a later stage.
C23_FetchFailureStillSynthesised ==
    (ResearchReturned /\ ResearchFetchFailed) =>
        /\ "summary" \in DOMAIN payload[1]
        /\ ~IsNone(payload[1].summary)
        /\ "recommendations" \in DOMAIN payload[1]
        /\ TruthyColl(payload[1].recommendations)
        /\ payload[1].error = Some("Data fetch error")

(***************************************************************************)
(* Claims about the Sentiment-only workflow's sources (Spec).              *)
(***************************************************************************)
\* C24: in the Sentiment-only workflow sources is optional: when sources is
\* null and at least one text survives cleaning, the analyze stage produces
\* one individual sentiment per cleaned text and an aggregated sentiment,
\* postprocess runs, and the payload's error is null.
C24_SourcesOptional ==
    (SentimentReturned /\ IsNone(req.sources) /\ state.texts # <<>>) =>
        /\ ran = <<"preprocess", "analyze", "postprocess">>
        /\ ~IsNone(payload[1].individual)
        /\ Len(payload[1].individual[1]) = Len(state.texts)
        /\ ~IsNone(payload[1].aggregated)
        /\ IsNone(payload[1].error)

(***************************************************************************)
(* Termination of an invocation.  The graph executor awaits one stage at a *)
(* time, every stage is a finite computation over the record and the       *)
(* collaborators' answers (the collaborator calls carry timeouts), and the *)
(* run function returns as soon as the executor stops: an invocation that  *)
(* stands at a position where its workflow has a step moves on.  Every     *)
(* step of Next changes pc, so weak fairness is stated on the change of    *)
(* position at the positions guarding a step of the workflow, which        *)
(* together with [][Next]_vars is weak fairness of that step.              *)
(***************************************************************************)
Positions ==
    {"call", "fetch", "sentiment", "indicators", "synthesis", "analysis",
     "preprocess", "analyze", "postprocess", "END", "raised", "returned", "rejected"}
\* the positions guarding the actions of each workflow
Guarded ==
    IF req.kind = "research"
    THEN {"call", "fetch", "sentiment", "indicators", "synthesis", "END", "raised"}
    ELSE IF req.kind = "sentiment"
    THEN {"call", "preprocess", "analyze", "postprocess", "END"}
    ELSE {"call", "fetch", "sentiment", "indicators", "analysis", "END"}
Over == pc \in {"returned", "rejected"}
Advance == pc \in Guarded /\ \E p \in Positions : pc' = p

SpecFair == Spec /\ WF_pc(Advance)

StageLimit == IF req.kind = "sentiment" THEN 3 ELSE 4
NoStageTwice == \A i, j \in 1..Len(ran) : ran[i] = ran[j] => i = j

\* C25: every invocation of each of the three workflows terminates:
\* whatever the collaborators return or raise, at most four stages are
\* executed (three in the Sentiment-only workflow), no stage is executed
\* twice, the run function returns only after the executor has reached
\* TERMINATE, and every invocation is eventually over.
C25_Terminates ==
    /\ [](Len(ran) <= StageLimit /\ NoStageTwice)
    /\ [][pc' # pc /\ (pc' = "returned" => pc = "END")]_vars
    /\ <>Over

\* a Research run that executed its four stages and returned
C25_Witness ==
    /\ pc = "returned"
    /\ ran = <<"fetch", "sentiment", "indicators", "synthesis">>

(***************************************************************************)
(* Claims about the order of the returned recommendations (Spec).          *)
(***************************************************************************)
\* C26: in the recommendations list returned by the Portfolio workflow the
\* highest-priority recommendations come first: with priority 1 the highest
\* and 5 the lowest, no recommendation with priority value p appears before
\* a recommendation with a smaller priority value q < p.
C26_HighestPriorityFirst ==
    PortfolioReturned =>
        \A j, k \in 1..Len(RecommendationsReturned) :
            j < k => RecommendationsReturned[j].priority
                         <= RecommendationsReturned[k].priority

(***************************************************************************)
(* Claims about the routes' answers (Spec).                                *)
(***************************************************************************)
\* C27: the agent endpoints answer input-validation failures with status
\* 400: POST /agents/portfolio with an empty tickers list or more than 20
\* tickers, and POST /agents/sentiment with an empty texts list, each
\* produce a response with status 400.
C27_ValidationAnswers400 ==
    /\ (req.kind = "portfolio" /\ req.via = "post" /\ pc # "call"
            /\ (req.tickers = <<>> \/ Len(req.tickers) > 20)) => http = 400
    /\ (req.kind = "sentiment" /\ req.via = "post" /\ pc # "call"
            /\ req.texts = <<>>) => http = 400

(***************************************************************************)
(* Claims about the sources of the individual sentiments (Spec).           *)
(***************************************************************************)
\* the texts of the request that survive cleaning, and the place of the
\* i-th text among them
Kept == {i \in 1..Len(req.texts) : join(split(req.texts[i])) # <<>>}
Rank(i) == Cardinality({k \in Kept : k <= i})

\* C29: in the Sentiment-only workflow each individual sentiment carries
\* the source of its own text: whenever texts[i] survives cleaning and
\* sources[i] is given, the individual result built from texts[i] has source
\* sources[i], also when earlier entries of texts were stripped by
\* preprocess.
C29_SourceOfOwnText ==
    (SentimentReturned /\ ~IsNone(req.sources)) =>
        \A i \in Kept :
            i <= Len(req.sources[1]) =>
                /\ ~IsNone(payload[1].individual)
                /\ Rank(i) <= Len(payload[1].individual[1])
                /\ payload[1].individual[1][Rank(i)].source = req.sources[1][i]

(***************************************************************************)
(* Claims relating two calls of determine_action (SpecFunctions).          *)
(***************************************************************************)
\* Strong Sell < Sell < Hold = Hold - Monitor Closely < Buy < Strong Buy
Bullishness(action) ==
    CASE action = "Strong Sell" -> 0
      [] action = "Sell" -> 1
      [] action \in {"Hold", "Hold - Monitor Closely"} -> 2
      [] action = "Buy" -> 3
      [] action = "Strong Buy" -> 4
ActionFor(signal) == determine_action(req.sentiment, [overall_signal |-> signal])

\* C28: determine_action is monotone in the technical signal: for every
\* fixed sentiment in [0,1] the action for strong_buy is never less bullish
\* than the action for buy, and the action for strong_sell is never less
\* bearish than the action for sell.
C28_MonotoneInSignal ==
    /\ (Returned("determine_action") /\ SignalGiven = "strong_buy") =>
           Bullishness(payload[1]) >= Bullishness(ActionFor("buy"))
    /\ (Returned("determine_action") /\ SignalGiven = "strong_sell") =>
           Bullishness(payload[1]) <= Bullishness(ActionFor("sell"))

(***************************************************************************)
(* SpecConcurrent: several invocations of the run functions in flight on   *)
(* one event loop.  Each call of run_research_analysis,                    *)
(* run_sentiment_analysis or run_portfolio_analysis builds its own record  *)
(* (initial_state is a local of the call) and hands it to the compiled     *)
(* graph; the tasks interleave at the awaits, that is between stages.      *)
(* Here req, state, pc, ran and payload hold one entry per invocation, and *)
(* the answers the collaborators give an invocation are fixed with its     *)
(* request, so that the same invocation can be run alone.                  *)
(***************************************************************************)
MaxInvocations == 2
Invocations == 1..MaxInvocations

ConcurrentFetches(ticker) ==
    {r \in FetchResponses(ticker) :
        \/ r.raise_at = "news"
        \/ /\ r.raise_at = "none"
           /\ r.news \in {<<>>, <<[scorable |-> TRUE, compound |-> 8000]>>}
           /\ r.quote = [price |-> 100, symbol |-> ticker]
           /\ r.historical = <<0>>}
ConcurrentRequests ==
    [kind : {"research"}, ticker : {"A"}, resp : ConcurrentFetches("A")]
        \cup [kind : {"sentiment"}, texts : {<<<<" ">>, <<"a">>>>},
              sources : {Some(<<<<"s">>, <<"s", "s">>>>)},
              classify : {[t \in Texts |-> 8000]}]
        \cup [kind : {"portfolio"}, tickers : {<<"B", "A">>},
              responses : {f \in [Tickers -> UNION {ConcurrentFetches(t) : t \in Tickers}] :
                              /\ \A t \in Tickers : f[t] \in ConcurrentFetches(t)
                              /\ f["A"].raise_at = f["B"].raise_at
                              /\ f["A"].news = f["B"].news
                              /\ f["A"].raise_at = "none" => f["A"].news # <<>>}]

At(i, kind, position) == req[i].kind = kind /\ pc[i] = position

\* invocation i enters its run function: the record is built
Entered(i, st, first) ==
    /\ state' = [state EXCEPT ![i] = st]
    /\ pc' = [pc EXCEPT ![i] = first]
    /\ UNCHANGED <<req, ran, payload, calls, http>>

\* invocation i has run a stage on its record and the edge after it
\* mutant: the invocations of one run function share a module-level record
Staged_on_shared_record(i, stage, st, position) ==
    /\ state' = [j \in Invocations |->
                    IF req[j].kind = req[i].kind /\ state[j] # EmptyDict
                    THEN st ELSE state[j]]
    /\ pc' = [pc EXCEPT ![i] = position]
    /\ ran' = [ran EXCEPT ![i] = Append(@, stage)]
    /\ UNCHANGED <<req, payload, calls, http>>
Staged(i, stage, st, position) ==
    /\ state' = [state EXCEPT ![i] = st]
    /\ pc' = [pc EXCEPT ![i] = position]
    /\ ran' = [ran EXCEPT ![i] = Append(@, stage)]
    /\ UNCHANGED <<req, payload, calls, http>>

\* the run function of invocation i returns
Answered(i, result) ==
    /\ payload' = [payload EXCEPT ![i] = Some(result)]
    /\ pc' = [pc EXCEPT ![i] = "returned"]
    /\ UNCHANGED <<req, state, ran, calls, http>>

research_raised(ticker) == [ticker |-> ticker, error |-> Some(NoneTypeGet)]

ConcurrentRunResearch(i) ==
    At(i, "research", "call") /\ Entered(i, research_initial_state(req[i].ticker), "fetch")
ConcurrentResearchFetch(i) ==
    /\ At(i, "research", "fetch")
    /\ Staged(i, "fetch", fetch_research_data(state[i], req[i].resp),
              research_after_fetch(fetch_research_data(state[i], req[i].resp)))
ConcurrentResearchSentiment(i) ==
    /\ At(i, "research", "sentiment")
    /\ Staged(i, "sentiment", analyze_research_sentiment(state[i]),
              research_after_sentiment(analyze_research_sentiment(state[i])))
ConcurrentResearchIndicators(i) ==
    /\ At(i, "research", "indicators")
    /\ IF research_indicators_escapes(state[i])
       THEN Staged(i, "indicators", state[i], "raised")
       ELSE Staged(i, "indicators", calculate_research_indicators(state[i]),
              research_after_indicators(calculate_research_indicators(state[i])))
ConcurrentResearchSynthesis(i) ==
    /\ At(i, "research", "synthesis")
    /\ Staged(i, "synthesis", synthesis_node(state[i]), "END")
ConcurrentResearchReturn(i) ==
    /\ req[i].kind = "research"
    /\ pc[i] \in {"END", "raised"}
    /\ Answered(i, IF pc[i] = "raised" THEN research_raised(req[i].ticker)
                   ELSE format_research_output(state[i]))

ConcurrentRunSentiment(i) ==
    /\ At(i, "sentiment", "call")
    /\ Entered(i, sentiment_initial_state(req[i].texts, req[i].sources), "preprocess")
ConcurrentSentimentPreprocess(i) ==
    /\ At(i, "sentiment", "preprocess")
    /\ Staged(i, "preprocess", preprocess_node(state[i]),
              sentiment_after_preprocess(preprocess_node(state[i])))
ConcurrentSentimentAnalyze(i) ==
    /\ At(i, "sentiment", "analyze")
    /\ Staged(i, "analyze", analyze_pure_sentiment(state[i], req[i].classify),
              sentiment_after_analyze(analyze_pure_sentiment(state[i], req[i].classify)))
ConcurrentSentimentPostprocess(i) ==
    /\ At(i, "sentiment", "postprocess")
    /\ Staged(i, "postprocess", postprocess_node(state[i]), "END")
ConcurrentSentimentReturn(i) ==
    At(i, "sentiment", "END") /\ Answered(i, format_sentiment_output(state[i]))

ConcurrentRunPortfolio(i) ==
    At(i, "portfolio", "call") /\ Entered(i, portfolio_initial_state(req[i].tickers), "fetch")
ConcurrentPortfolioFetch(i) ==
    /\ At(i, "portfolio", "fetch")
    /\ Staged(i, "fetch", fetch_portfolio_data(state[i], req[i].responses),
              portfolio_after_fetch(fetch_portfolio_data(state[i], req[i].responses)))
ConcurrentPortfolioSentiment(i) ==
    /\ At(i, "portfolio", "sentiment")
    /\ Staged(i, "sentiment", analyze_portfolio_sentiment(state[i]),
              portfolio_after_sentiment(analyze_portfolio_sentiment(state[i])))
ConcurrentPortfolioIndicators(i) ==
    /\ At(i, "portfolio", "indicators")
    /\ Staged(i, "indicators", calculate_portfolio_indicators(state[i]),
              portfolio_after_indicators(calculate_portfolio_indicators(state[i])))
ConcurrentPortfolioAnalysis(i) ==
    /\ At(i, "portfolio", "analysis")
    /\ Staged(i, "analysis", portfolio_analysis_node(state[i]), "END")
ConcurrentPortfolioReturn(i) ==
    At(i, "portfolio", "END") /\ Answered(i, format_portfolio_output(state[i]))

InitConcurrent ==
    /\ req \in [Invocations -> ConcurrentRequests]
    /\ state = [i \in Invocations |-> EmptyDict]
    /\ pc = [i \in Invocations |-> "call"]
    /\ ran = [i \in Invocations |-> <<>>]
    /\ payload = [i \in Invocations |-> None]
    /\ calls = 0
    /\ http = 0

NextConcurrent ==
    \/ \E i \in Invocations : ConcurrentRunResearch(i)
    \/ \E i \in Invocations : ConcurrentResearchFetch(i)
    \/ \E i \in Invocations : ConcurrentResearchSentiment(i)
    \/ \E i \in Invocations : ConcurrentResearchIndicators(i)
    \/ \E i \in Invocations : ConcurrentResearchSynthesis(i)
    \/ \E i \in Invocations : ConcurrentResearchReturn(i)
    \/ \E i \in Invocations : ConcurrentRunSentiment(i)
    \/ \E i \in Invocations : ConcurrentSentimentPreprocess(i)
    \/ \E i \in Invocations : ConcurrentSentimentAnalyze(i)
    \/ \E i \in Invocations : ConcurrentSentimentPostprocess(i)
    \/ \E i \in Invocations : ConcurrentSentimentReturn(i)
    \/ \E i \in Invocations : ConcurrentRunPortfolio(i)
    \/ \E i \in Invocations : ConcurrentPortfolioFetch(i)
    \/ \E i \in Invocations : ConcurrentPortfolioSentiment(i)
    \/ \E i \in Invocations : ConcurrentPortfolioIndicators(i)
    \/ \E i \in Invocations : ConcurrentPortfolioAnalysis(i)
    \/ \E i \in Invocations : ConcurrentPortfolioReturn(i)

SpecConcurrent == InitConcurrent /\ [][NextConcurrent]_vars

\* graph.ainvoke on a record of its own: the stage at the position, the edge
\* after it, until END (or an exception escaping a stage)
RECURSIVE research_ainvoke(_, _, _)
research_ainvoke(st, position, resp) ==
    IF position = "fetch"
    THEN research_ainvoke(fetch_research_data(st, resp),
                          research_after_fetch(fetch_research_data(st, resp)), resp)
    ELSE IF position = "sentiment"
    THEN research_ainvoke(analyze_research_sentiment(st), "indicators", resp)
    ELSE IF position = "indicators"
    THEN IF research_indicators_escapes(st) THEN research_raised(st.ticker)
         ELSE research_ainvoke(calculate_research_indicators(st), "synthesis", resp)
    ELSE IF position = "synthesis"
    THEN research_ainvoke(synthesis_node(st), "END", resp)
    ELSE format_research_output(st)

RECURSIVE sentiment_ainvoke(_, _, _)
sentiment_ainvoke(st, position, classify) ==
    IF position = "preprocess"
    THEN sentiment_ainvoke(preprocess_node(st),
                           sentiment_after_preprocess(preprocess_node(st)), classify)
    ELSE IF position = "analyze"
    THEN sentiment_ainvoke(analyze_pure_sentiment(st, classify), "postprocess", classify)
    ELSE IF position = "postprocess"
    THEN sentiment_ainvoke(postprocess_node(st), "END", classify)
    ELSE format_sentiment_output(st)

RECURSIVE portfolio_ainvoke(_, _, _)
portfolio_ainvoke(st, position, responses) ==
    IF position = "fetch"
    THEN portfolio_ainvoke(fetch_portfolio_data(st, responses),
                           portfolio_after_fetch(fetch_portfolio_data(st, responses)),
                           responses)
    ELSE IF position = "sentiment"
    THEN portfolio_ainvoke(analyze_portfolio_sentiment(st), "indicators", responses)
    ELSE IF position = "indicators"
    THEN portfolio_ainvoke(calculate_portfolio_indicators(st), "analysis", responses)
    ELSE IF position = "analysis"
    THEN portfolio_ainvoke(portfolio_analysis_node(st), "END", responses)
    ELSE format_portfolio_output(st)

\* the payload of the request when its run function is the only one running
run_alone(request) ==
    IF request.kind = "research"
    THEN research_ainvoke(research_initial_state(request.ticker), "fetch", request.resp)
    ELSE IF request.kind = "sentiment"
    THEN sentiment_ainvoke(sentiment_initial_state(request.texts, request.sources),
                           "preprocess", request.classify)
    ELSE portfolio_ainvoke(portfolio_initial_state(request.tickers), "fetch",
                           request.responses)

(***************************************************************************)
(* Claims about concurrent invocations (SpecConcurrent).                   *)
(***************************************************************************)
\* a step of one invocation leaves the records, positions, stage lists and
\* payloads of the others as they were
OthersUntouched(i) ==
    \A j \in Invocations \ {i} :
        /\ state'[j] = state[j]
        /\ pc'[j] = pc[j]
        /\ ran'[j] = ran[j]
        /\ payload'[j] = payload[j]

MaxAdds == 2          \* requests in flight
MaxSymbolLen == 2     \* longest raw symbol
Adds == 1..MaxAdds
SymbolChars == {" ", "a", "B"}
RawSymbols == SeqsUpTo(SymbolChars, MaxSymbolLen)

\* str.strip(): without the leading and the trailing blanks
strip(s) ==
    LET solid == {j \in 1..Len(s) : s[j] # " "}
    IN  IF solid = {} THEN <<>>
        ELSE SubSeq(s, CHOOSE j \in solid : \A k \in solid : j <= k,
                       CHOOSE j \in solid : \A k \in solid : j >= k)
normalize_symbol(s) == [j \in 1..Len(strip(s)) |-> upper(strip(s)[j])]

\* db.watchlist.find_one({"user_id": user_id}): the first document, or None
find_one(collection) == IF collection = <<>> THEN None ELSE Some(collection[1])
\* insert_one: user_id is not a unique key (db.py creates the index with
\* unique=False), so the insert always succeeds
insert_one(collection, new_watch) == Append(collection, new_watch)
\* update_one(..., {"$set": {"items": items}}): on the first document, if any
update_one(collection, items) ==
    IF collection = <<>> THEN collection
    ELSE [collection EXCEPT ![1] = [@ EXCEPT !.items = items]]

already_exists(items, symbol) ==
    \E j \in 1..Len(items) : normalize_symbol(items[j].symbol) = symbol

\* the collection when the requests arrive: no document, or the one
\* document earlier adds have built
StoredWatchlists ==
    {<<>>, <<[items |-> <<>>]>>, <<[items |-> <<[symbol |-> <<"B">>]>>]>>}

Responded(p, response) ==
    /\ payload' = [payload EXCEPT ![p] = Some(response)]
    /\ pc' = [pc EXCEPT ![p] = "returned"]

\* lines 41-45: the body is read and the symbol normalized
AddItemParse(p) ==
    /\ pc[p] = "call"
    /\ IF normalize_symbol(req[p].symbol) = <<>>
       THEN Responded(p, [status |-> 400, ok |-> FALSE])
       ELSE pc' = [pc EXCEPT ![p] = "find_one"] /\ payload' = payload
    /\ UNCHANGED <<req, state, ran, calls, http>>

\* line 48
AddItemFind(p) ==
    /\ pc[p] = "find_one"
    /\ ran' = [ran EXCEPT ![p] = find_one(state)]
    /\ pc' = [pc EXCEPT ![p] = "found"]
    /\ UNCHANGED <<req, state, payload, calls, http>>

\* lines 50-64: insert a new document, or answer "Already exists", or append
\* to the items that were read and store them
AddItemWrite(p) ==
    /\ pc[p] = "found"
    /\ LET symbol == normalize_symbol(req[p].symbol)
           doc == ran[p]
       IN  IF IsNone(doc)
           THEN /\ state' = insert_one(state, [items |-> <<[symbol |-> symbol]>>])
                /\ Responded(p, [status |-> 200, ok |-> TRUE,
                                 items |-> <<[symbol |-> symbol]>>])
           ELSE IF already_exists(doc[1].items, symbol)
           THEN /\ state' = state
                /\ Responded(p, [status |-> 200, ok |-> FALSE, items |-> doc[1].items])
           ELSE /\ state' = update_one(state, Append(doc[1].items, [symbol |-> symbol]))
                /\ Responded(p, [status |-> 200, ok |-> TRUE,
                                 items |-> Append(doc[1].items, [symbol |-> symbol])])
    /\ UNCHANGED <<req, ran, calls, http>>

InitWatchlist ==
    /\ req \in [Adds -> [symbol : RawSymbols]]
    /\ state \in StoredWatchlists
    /\ pc = [p \in Adds |-> "call"]
    /\ ran = [p \in Adds |-> None]
    /\ payload = [p \in Adds |-> None]
    /\ calls = 0
    /\ http = 0

NextWatchlist ==
    \/ \E p \in Adds : AddItemParse(p)
    \/ \E p \in Adds : AddItemFind(p)
    \/ \E p \in Adds : AddItemWrite(p)

SpecWatchlist == InitWatchlist /\ [][NextWatchlist]_vars

(***************************************************************************)
(* Claims about the watchlist (SpecWatchlist).                             *)
(***************************************************************************)
StoredSymbols(doc) == {normalize_symbol(doc.items[j].symbol) : j \in 1..Len(doc.items)}
AddedOk(p) == pc[p] = "returned" /\ payload[p][1].ok

\* C30: after any sequence and any interleaving of concurrent add requests
\* for one user, that user has at most one watchlist document, its items
\* contain no two entries with the same normalized symbol, and every symbol
\* whose add returned ok: true is present in the stored items.
C30_AddsKeepOneConsistentWatchlist ==
    /\ Len(state) <= 1
    /\ \A d \in 1..Len(state) : Cardinality(StoredSymbols(state[d])) = Len(state[d].items)
    /\ \A p \in Adds :
           AddedOk(p) => /\ state # <<>>
                         /\ normalize_symbol(req[p].symbol) \in StoredSymbols(state[1])

====
